---- MODULE Spec2Model ----
(***************************************************************************)
(* Model of MovieRec's routing-and-fusion core.                            *)
(*                                                                         *)
(*  SpecHybrid  : HybridRecommender.recommend (backend/models/hybrid.py)   *)
(*                with its CBF / CF / semantic / graph collaborators.      *)
(*  SpecSimilar : GraphQueryService.find_similar_movies                    *)
(*                (backend/services/graph_query_service.py).               *)
(*                                                                         *)
(* Scores are fixed-point: a strategy score s in [0,1] is the integer      *)
(* 1000*s, a CF rating r in [0,5] is 1000*r, and a combined score is kept  *)
(* in units of 10^-7 (weight*1000 x score*1000 x boost*10), so that the    *)
(* arithmetic of the fusion formula is exact.                              *)
(***************************************************************************)
EXTENDS Integers, Sequences, FiniteSets, TLC

VARIABLES
    pc,                  \* position inside recommend()
    user_id,             \* recommend(user_id=...)       0 stands for None
    movie_ids,           \* recommend(movie_ids=...)     liked movies
    genres,              \* recommend(genres=...)        preferred genres
    text_query,          \* recommend(text_query=...)    "" stands for None
    n_recommendations,   \* recommend(n_recommendations=...)
    cbf_recs,            \* list built by _get_cbf_recommendations
    all_recommendations, \* the candidate dict, in insertion order
    recommendations,     \* the list recommend() returns
    calls,               \* outcome of every collaborator call made so far
    sim_pc,              \* position inside find_similar_movies()
    sim_movie_id,        \* find_similar_movies(movie_id=...)  0 stands for None
    sim_movie_title,     \* find_similar_movies(movie_title=...) <<>> stands for None
    sim_limit,           \* find_similar_movies(limit=...)
    sim_weights,         \* genre/actor/director/era weights of the call
    source_record,       \* result.single() of the source query, 0 when no record
    movies,              \* first element of the returned tuple
    similarity_details,  \* second element of the returned tuple
    first_result,        \* <<result>> of an earlier identical call, <<>> when none
    mo_pc,               \* position of the merge under a chosen strategy order
    mo_input,            \* the adapter results and arguments of that merge
    mo_order,            \* strategies still to merge, in the chosen order
    mo_map,              \* candidate dict of that merge
    mo_result,           \* list returned after that merge
    cl_pc,               \* position of the classify() call
    cl_query,            \* classify(query=...)
    intent,              \* the QueryIntent classify() returns
    ld_pc,               \* position of each thread inside get_similar()
    ld_load,             \* number of the load each thread runs, 0 without one
    ld_order,            \* fields each loading thread still has to assign
    ld_loads,            \* model loads started so far
    cbf_model,           \* fields of the shared ContentBasedFilter
    ld_seen,             \* model fields each thread has read after loading
    gm_pc,               \* position inside the get_movie() handler
    gm_args,             \* movie_id, include_similar, similar_limit of the request
    movie_future,        \* _executor.submit(_fetch_movie_details, ...)
    similar_future,      \* _executor.submit(_fetch_similar_movies, ...)
    other_tasks,         \* pool workers busy with tasks of other requests
    gm_waits,            \* how each future.result(timeout=10) of the handler ended
    response,            \* what get_movie() gives the caller, <<>> before that
    ms_pc,               \* position inside ModelService.get_similar_movies()
    ms_args,             \* movie_id and n_recommendations of that call
    ms_index,            \* movies of the TF-IDF index, {} when there is no matrix
    ms_recs,             \* what cbf.get_similar() gave: kind and rows
    ms_result,           \* the list get_similar_movies() returns
    cf_pc,               \* position inside get_recommendations_for_user()
    cf_args,             \* user_id, n_recommendations, exclude_rated of that call
    cf_rated,            \* movies with a rating in the user's matrix row
    cf_result,           \* the (movie_id, predicted_rating) list it returns
    gq_pc,               \* position inside parse_query(), "none" before construction
    gq_env,              \* library importable, API key set
    gq_initialized,      \* GeminiQueryService._initialized
    gq_model,            \* GeminiQueryService._model is not None
    gq_inits,            \* times _initialize went past its guard
    gq_calls,            \* parse_query calls made on the instance
    gq_query,            \* parse_query(user_query=...)
    gq_reply,            \* what the Gemini call of this parse_query gave
    gq_result            \* the ParsedQuery parse_query returns

hybridVars == <<pc, user_id, movie_ids, genres, text_query, n_recommendations,
                cbf_recs, all_recommendations, recommendations, calls>>
similarVars == <<sim_pc, sim_movie_id, sim_movie_title, sim_limit, sim_weights,
                 source_record, movies, similarity_details, first_result>>
mergeVars == <<mo_pc, mo_input, mo_order, mo_map, mo_result>>
classifyVars == <<cl_pc, cl_query, intent>>
loadVars == <<ld_pc, ld_load, ld_order, ld_loads, cbf_model, ld_seen>>
getMovieVars == <<gm_pc, gm_args, movie_future, similar_future, other_tasks,
                  gm_waits, response>>
similarMoviesVars == <<ms_pc, ms_args, ms_index, ms_recs, ms_result>>
cfVars == <<cf_pc, cf_args, cf_rated, cf_result>>
geminiVars == <<gq_pc, gq_env, gq_initialized, gq_model, gq_inits, gq_calls, gq_query, gq_reply, gq_result>>
vars == <<hybridVars, similarVars, mergeVars, classifyVars, loadVars, getMovieVars,
         similarMoviesVars,
         cfVars,
         geminiVars>>

\* What the steps of one operation leave alone: the state of the others.
outsideHybrid   == <<similarVars, mergeVars, classifyVars, loadVars, getMovieVars,
                    similarMoviesVars,
                    cfVars,
                    geminiVars>>
outsideSimilar  == <<hybridVars, mergeVars, classifyVars, loadVars, getMovieVars,
                    similarMoviesVars,
                    cfVars,
                    geminiVars>>
outsideMerge    == <<hybridVars, similarVars, classifyVars, loadVars, getMovieVars,
                    similarMoviesVars,
                    cfVars,
                    geminiVars>>
outsideClassify == <<hybridVars, similarVars, mergeVars, loadVars, getMovieVars,
                    similarMoviesVars,
                    cfVars,
                    geminiVars>>
outsideLoad     == <<hybridVars, similarVars, mergeVars, classifyVars, getMovieVars,
                    similarMoviesVars,
                    cfVars,
                    geminiVars>>
outsideGetMovie == <<hybridVars, similarVars, mergeVars, classifyVars, loadVars,
                    similarMoviesVars,
                    cfVars,
                    geminiVars>>
outsideSimilarMovies == <<hybridVars, similarVars, mergeVars, classifyVars, loadVars, getMovieVars,
                    cfVars,
                    geminiVars>>
outsideCf == <<hybridVars, similarVars, mergeVars, classifyVars, loadVars, getMovieVars, similarMoviesVars,
                    geminiVars>>
outsideGemini == <<hybridVars, similarVars, mergeVars, classifyVars, loadVars, getMovieVars, similarMoviesVars, cfVars>>

(***************************************************************************)
(* Bounds                                                                  *)
(***************************************************************************)
NumMovies == 3      \* movies the recommender's collaborators know
NumGraphMovies == 5 \* Movie nodes in the graph of find_similar_movies
MaxLimit  == 2      \* largest limit passed to find_similar_movies
MaxN      == 2      \* largest n_recommendations requested
MaxRecs   == 1      \* most scored rows one model call returns
NumPhrases == 15    \* phrases the classified queries are built from
NumThreads == 2     \* threads that call into one ContentBasedFilter
MaxCalls  == 2      \* parse_query calls made on one GeminiQueryService

Movies == 1..NumMovies
Threads == 1..NumThreads
GraphMovies == 1..NumGraphMovies

(***************************************************************************)
(* Generic helpers                                                         *)
(***************************************************************************)
Min(a, b) == IF a < b THEN a ELSE b
Max(a, b) == IF a > b THEN a ELSE b
Abs(a)    == IF a < 0 THEN -a ELSE a
ToSet(s)  == {s[i] : i \in 1..Len(s)}
Prefix(s, k) == SubSeq(s, 1, Min(k, Len(s)))
IsInjective(s) == \A i, j \in 1..Len(s) : i # j => s[i] # s[j]

(***************************************************************************)
(* The graph database content (read-only for the core).                    *)
(***************************************************************************)
MovieGenres(m) ==
    CASE m = 1 -> <<"Action", "Comedy">>
      [] m = 2 -> <<"Comedy", "Action", "Drama">>
      [] m = 3 -> <<>>
      [] m = 4 -> <<"Action">>
      [] m = 5 -> <<"Drama">>
      [] OTHER -> <<>>

MovieActors(m) ==
    CASE m = 1 -> {"Ford", "Hamill"}
      [] m = 2 -> {"Nimoy"}
      [] m = 4 -> {"Ford"}
      [] OTHER -> {}

MovieDirectors(m) ==
    CASE m = 1 -> {"Lucas"}
      [] m = 2 -> {"Lucas"}
      [] m = 4 -> {"Carpenter"}
      [] m = 5 -> {"Lucas"}
      [] OTHER -> {}

NoYear == 0     \* release_year IS NULL
ReleaseYear(m) ==
    CASE m = 1 -> 1977
      [] m = 2 -> 1979
      [] m = 4 -> 1984
      [] m = 5 -> 1995
      [] OTHER -> NoYear

VoteAverage(m) ==
    CASE m = 1 -> 8
      [] m = 3 -> 6
      [] m = 5 -> 9
      [] OTHER -> 7

\* Titles as character sequences: "Heat", "Cheat", "Up", "HEAT", "Sup".
MovieTitle(m) ==
    CASE m = 1 -> <<"H", "e", "a", "t">>
      [] m = 2 -> <<"C", "h", "e", "a", "t">>
      [] m = 3 -> <<"U", "p">>
      [] m = 4 -> <<"H", "E", "A", "T">>
      [] m = 5 -> <<"S", "u", "p">>
      [] OTHER -> <<"X">>

Popularity(m) == 100 - 10 * m

\* Movies in descending popularity (ORDER BY m.popularity DESC).
RECURSIVE ByPopularity(_)
ByPopularity(S) ==
    IF S = {} THEN <<>>
    ELSE LET top == CHOOSE m \in S : \A o \in S : Popularity(m) >= Popularity(o)
         IN <<top>> \o ByPopularity(S \ {top})

\* Read-only model artifacts: TF-IDF cosine similarity, text match score,
\* predicted rating, embedding similarity (all x1000).
CbfSimilarity(src, m) ==
    IF src = m \/ {src, m} = {1, 4} THEN 1000       \* 1 and 4: the same text
    ELSE 200 + 600 * ((src + m) % 2)
CbfTextScore(m)       == IF m % 2 = 1 THEN 400 ELSE 200
PredictedRating(m)    == IF m % 3 = 0 THEN 4000 ELSE 1000 * m
VectorScore(m)        == 500 + 100 * m

(***************************************************************************)
(* Rows returned by the collaborators.  A row carries the fields the       *)
(* fusion reads: movie_id, score (absent from search_movies rows) and      *)
(* genres.                                                                 *)
(***************************************************************************)
ScoredRow(m, sc) == [movie_id |-> m, has_score |-> TRUE, score |-> sc,
                     genres |-> MovieGenres(m)]
PlainRow(m)      == [movie_id |-> m, has_score |-> FALSE, score |-> 0,
                     genres |-> MovieGenres(m)]

\* The movies of S, best score first (argsort()[::-1], index order); movies
\* with equal scores come in either order.  f[m] is the score of m.
RECURSIVE Rankings(_, _)
Rankings(f, S) ==
    IF S = {} THEN {<<>>}
    ELSE UNION {{<<top>> \o rest : rest \in Rankings(f, S \ {top})} :
                  top \in {m \in S : \A o \in S : f[m] >= f[o]}}

\* Row lists a model may return for a request of `limit` rows over the
\* movies S it scores: its best k rows, k up to the limit.
ScoredRowLists(f, S, limit) ==
    {[i \in 1..k |-> ScoredRow(t[i], f[t[i]])] :
        t \in Rankings(f, S), k \in 0..Min(Min(MaxRecs, limit), Cardinality(S))}

\* Neo4jService.search_movies(genres=gs, limit=limit) on a healthy database:
\* movies having one of the genres, most popular first, without a score.
SearchMoviesRows(gs, limit) ==
    LET hit == {m \in Movies : ToSet(MovieGenres(m)) \cap ToSet(gs) # {}}
        byPop == Prefix(ByPopularity(hit), limit)
    IN [i \in 1..Len(byPop) |-> PlainRow(byPop[i])]

\* Neo4jService._fallback_search(limit) on a healthy database: the most
\* popular movies, each with score 1.0.
FallbackSearchRows(limit) ==
    LET byPop == Prefix(ByPopularity(Movies), limit)
    IN [i \in 1..Len(byPop) |-> ScoredRow(byPop[i], 1000)]

MinScore == 500     \* vector_search(min_score=0.5)

\* cbf.py 133-137: similarities.argsort()[::-1], the indexed movies by
\* descending similarity to the movie; equal similarities in either order.
IndexRankings(index, mid) ==
    Rankings([m \in index |-> CbfSimilarity(mid, m)], index)

\* cbf.py 137: [1:n_recommendations + 1]
SimilarIndices(ranking, mid, n) == SubSeq(ranking, 2, Min(n + 1, Len(ranking)))

\* cbf.py 139-149: one row per selected index, with its similarity.
IndexRows(ranking, mid) ==
    [i \in 1..Len(ranking) |-> ScoredRow(ranking[i], CbfSimilarity(mid, ranking[i]))]

\* cbf.py 128-149: the lists get_similar may build from the index.
IndexedSimilar(index, mid, n) ==
    {IndexRows(SimilarIndices(t, mid, n), mid) : t \in IndexRankings(index, mid)}

\* cbf.py 122-130: the database fallback; get_movie_details gives None and
\* search_movies gives [] when the database fails.
DatabaseSimilar(mid, n) ==
    {<<>>}
    \cup {SearchMoviesRows(Prefix(MovieGenres(m), 2), n) :
             m \in {k \in Movies : k = mid /\ MovieGenres(k) # <<>>}}

\* ContentBasedFilter.get_similar(movie_id, n_recommendations): an exception,
\* the best rows of the TF-IDF index after the first position, the rows of
\* the database fallback (search_movies on the movie's first two genres; no
\* rows for a movie without genres).
GetSimilarOutcomes(mid, limit) ==
    {[kind |-> "raise", rows |-> <<>>]}
    \cup {[kind |-> "scored", rows |-> Prefix(r, k)] :
            r \in IndexedSimilar(Movies, mid, limit), k \in 0..MaxRecs}
    \cup {[kind |-> "db_fallback",
           rows |-> IF MovieGenres(mid) # <<>>
                    THEN SearchMoviesRows(Prefix(MovieGenres(mid), 2), limit)
                    ELSE <<>>]}

\* ContentBasedFilter.get_recommendations_for_text(text, n_recommendations).
GetRecommendationsForTextOutcomes(limit) ==
    {[kind |-> "raise", rows |-> <<>>]}
    \cup {[kind |-> "scored", rows |-> r] :
            r \in ScoredRowLists([m \in Movies |-> CbfTextScore(m)], Movies, limit)}

\* CollaborativeFilter.get_recommendations_for_user(user_id, n): the score
\* of a row is the predicted rating.
GetRecommendationsForUserOutcomes(limit) ==
    {[kind |-> "raise", rows |-> <<>>]}
    \cup {[kind |-> "scored", rows |-> r] :
            r \in ScoredRowLists([m \in Movies |-> PredictedRating(m)], Movies, limit)}

\* embedding_service.generate_embedding followed by
\* Neo4jService.vector_search(embedding, limit).
VectorSearchOutcomes(limit) ==
    {[kind |-> "raise", rows |-> <<>>]}
    \cup {[kind |-> "scored", rows |-> r] :
            r \in ScoredRowLists([m \in Movies |-> VectorScore(m)],
                                 {m \in Movies : VectorScore(m) >= MinScore}, limit)}
    \cup {[kind |-> "index_error", rows |-> FallbackSearchRows(limit)]}
    \cup {[kind |-> "db_error", rows |-> <<>>]}

\* Neo4jService.search_movies(genres=genres, limit=n) of the genre fallback.
SearchMoviesOutcomes(gs, limit) ==
    {[kind |-> "rows", rows |-> SearchMoviesRows(gs, limit)],
     [kind |-> "db_error", rows |-> <<>>]}

(***************************************************************************)
(* The candidate dict all_recommendations: its items in insertion order.   *)
(***************************************************************************)
HasKey(map, mid) == \E i \in 1..Len(map) : map[i].movie_id = mid

NewItem(mid, cbf, cf, semantic, gs) ==
    [movie_id |-> mid, cbf |-> cbf, cf |-> cf, semantic |-> semantic, genres |-> gs]

\* Variant: the membership test is missing and every row adds an item.
SetDefaultAlways(map, item) == Append(map, item)

\* `if mid not in all_recommendations: all_recommendations[mid] = {...}`
SetDefault(map, item) ==
    IF HasKey(map, item.movie_id) THEN map ELSE Append(map, item)

\* all_recommendations[mid]["scores"][key] = value
SetScore(map, mid, key, value) ==
    [i \in 1..Len(map) |->
        IF map[i].movie_id = mid THEN [map[i] EXCEPT ![key] = value] ELSE map[i]]

\* hybrid.py 68-76 and 106-114: merge the rows of one strategy.  Reading
\* rec["score"] of a row without that key raises KeyError (err).
RECURSIVE MergeStrategy(_, _, _)
MergeStrategy(map, rows, key) ==
    IF rows = <<>> THEN [map |-> map, err |-> FALSE]
    ELSE LET rec == Head(rows)
             m1  == SetDefault(map, NewItem(rec.movie_id, 0, 0, 0, rec.genres))
         IN IF ~rec.has_score THEN [map |-> m1, err |-> TRUE]
            ELSE MergeStrategy(SetScore(m1, rec.movie_id, key, rec.score),
                               Tail(rows), key)

\* hybrid.py 81-99: merge the CF rows; `known` are the movies for which
\* neo4j_service.get_movie_details returns a record.
RECURSIVE MergeCf(_, _, _)
MergeCf(map, rows, known) ==
    IF rows = <<>> THEN map
    ELSE LET mid == Head(rows).movie_id
             m1  == IF ~HasKey(map, mid) /\ mid \in known
                    THEN Append(map, NewItem(mid, 0, 0, 0, MovieGenres(mid)))
                    ELSE map
             m2  == IF HasKey(m1, mid)
                    THEN SetScore(m1, mid, "cf", Head(rows).score \div 5)
                    ELSE m1
         IN MergeCf(m2, Tail(rows), known)

\* Variant: a row of the genre fallback replaces the scores of a candidate
\* already collected.
AddPlaceholderOverwriting(map, rec) ==
    SetScore(SetScore(SetDefault(map, NewItem(rec.movie_id, 300, 0, 300, rec.genres)),
                      rec.movie_id, "cbf", 300),
             rec.movie_id, "semantic", 300)

\* hybrid.py 121-134: the body of the loop over genre_recs.
AddPlaceholder(map, rec) ==
    SetDefault(map, NewItem(rec.movie_id, 300, 0, 300, rec.genres))

\* hybrid.py 119-134: the genre fallback adds placeholder candidates.
RECURSIVE MergeGenreFallback(_, _)
MergeGenreFallback(map, rows) ==
    IF rows = <<>> THEN map
    ELSE MergeGenreFallback(AddPlaceholder(map, Head(rows)), Tail(rows))

(***************************************************************************)
(* Final scoring, hybrid.py 136-162.                                       *)
(***************************************************************************)
CbfWeight      == 400
CfWeight       == 300
SemanticWeight == 300

GenreOverlap(gs, itemGenres) == Cardinality(ToSet(gs) \cap ToSet(itemGenres))

\* Variant: the genre boost counts the preferred genres instead of the overlap.
FinalScoreBoostAll(item, gs) ==
    LET weighted == CbfWeight * item.cbf + CfWeight * item.cf
                    + SemanticWeight * item.semantic
    IN IF gs # <<>> /\ item.genres # <<>>
       THEN weighted * (10 + Cardinality(ToSet(gs)))
       ELSE weighted * 10

FinalScore(item, gs) ==
    LET weighted == CbfWeight * item.cbf + CfWeight * item.cf
                    + SemanticWeight * item.semantic
    IN IF gs # <<>> /\ item.genres # <<>>
       THEN weighted * (10 + GenreOverlap(gs, item.genres))
       ELSE weighted * 10

\* Variant: the input movies are not skipped.
SkipInputNever(mid, liked) == FALSE

\* `if mid in movie_ids: continue`
SkipInput(mid, liked) == mid \in ToSet(liked)

\* hybrid.py 259, 263, 267: a strategy is named when its score is above 0.5.
ExplainThreshold == 500

ClauseIf(condition, clause) == IF condition THEN <<clause>> ELSE <<>>

\* Variant: the preferred genres are never mentioned.
ExplanationsWithoutGenres(item, gs) ==
    ClauseIf(item.cbf > ExplainThreshold, "similar content to movies you like")
    \o ClauseIf(item.cf > ExplainThreshold, "popular among users with similar taste")
    \o ClauseIf(item.semantic > ExplainThreshold, "matches your search criteria")

\* hybrid.py 254-274: the list `explanations`; the genre clause is
\* "features" followed by the matching genres.
Explanations(item, gs) ==
    ClauseIf(item.cbf > ExplainThreshold, "similar content to movies you like")
    \o ClauseIf(item.cf > ExplainThreshold, "popular among users with similar taste")
    \o ClauseIf(item.semantic > ExplainThreshold, "matches your search criteria")
    \o ClauseIf(gs # <<>> /\ item.genres # <<>> /\ ToSet(gs) \cap ToSet(item.genres) # {},
                "features")

\* hybrid.py 276-279: the clauses joined with " and " after the opening
\* words, or the fixed sentence when there is no clause.  features holds the
\* genres the genre clause lists (a set: they are joined in set order).
ExplanationOf(clauses, matching) ==
    [text |-> IF clauses # <<>> THEN "Recommended because it has"
              ELSE "Recommended based on popularity and relevance",
     clauses |-> clauses,
     features |-> IF clauses # <<>> /\ clauses[Len(clauses)] = "features"
                  THEN matching ELSE {}]

\* HybridRecommender._generate_explanation
GenerateExplanation(item, gs) ==
    ExplanationOf(Explanations(item, gs), ToSet(gs) \cap ToSet(item.genres))

RECURSIVE ScoreItems(_, _, _)
ScoreItems(map, liked, gs) ==
    IF map = <<>> THEN <<>>
    ELSE LET item == Head(map)
             rest == ScoreItems(Tail(map), liked, gs)
         IN IF SkipInput(item.movie_id, liked) THEN rest
            ELSE <<[movie_id |-> item.movie_id, score |-> FinalScore(item, gs),
                    genres |-> item.genres,
                    explanation |-> GenerateExplanation(item, gs)]>> \o rest

\* list.sort(key=score, reverse=True): stable, equal scores keep their order.
InsertByScore(sorted, x) ==
    LET k == Cardinality({i \in 1..Len(sorted) : sorted[i].score >= x.score})
    IN SubSeq(sorted, 1, k) \o <<x>> \o SubSeq(sorted, k + 1, Len(sorted))

\* Variant: the list is returned in dict order, without sorting.
SortByScoreSkipped(s) == s

RECURSIVE SortByScore(_)
SortByScore(s) ==
    IF s = <<>> THEN <<>>
    ELSE InsertByScore(SortByScore(SubSeq(s, 1, Len(s) - 1)), s[Len(s)])

\* recommendations[:n_recommendations]
Truncate(s, n) == Prefix(s, n)

(***************************************************************************)
(* HybridRecommender.recommend as a state machine.                         *)
(***************************************************************************)
UserIdChoices  == {0, 7}
LikedChoices   == {<<>>, <<2>>, <<3, 1>>, <<2, 2, 1, 2>>}
GenreChoices   == {<<>>, <<"Drama", "Drama">>, <<"Comedy", "Action">>}
TextChoices    == {"", "space heist"}

CbfLikedLimit == 3      \* movie_ids[:3]

\* Variant: the semantic adapter lets exceptions through.
CatchesButSemantic(adapter) ==
    adapter \in {"get_similar", "get_recommendations_for_text",
                 "get_recommendations_for_user"}

\* The `except Exception` wrapped around each adapter call.
Catches(adapter) ==
    adapter \in {"get_similar", "get_recommendations_for_text",
                 "get_recommendations_for_user", "vector_search"}

\* Rows an adapter hands back for a collaborator outcome.
AdapterRows(outcome) == IF outcome.kind = "raise" THEN <<>> ELSE outcome.rows

Escapes(adapter, outcome) == outcome.kind = "raise" /\ ~Catches(adapter)

Log(adapter, outcome) == Append(calls, [adapter |-> adapter, kind |-> outcome.kind,
                                        rows |-> Len(outcome.rows)])

\* Number of get_similar calls already made: the loop index of hybrid.py 174.
SimilarCallsMade == Cardinality({i \in 1..Len(calls) : calls[i].adapter = "get_similar"})

\* A caller invokes recommend(user_id, movie_ids, genres, text_query, n).
Recommend ==
    /\ pc = "idle"
    /\ \E u \in UserIdChoices, ids \in LikedChoices, gs \in GenreChoices,
          t \in TextChoices, n \in 1..MaxN :
        /\ user_id' = u
        /\ movie_ids' = ids
        /\ genres' = gs
        /\ text_query' = t
        /\ n_recommendations' = n
    /\ pc' = "cbf_similar"
    /\ UNCHANGED <<cbf_recs, all_recommendations, recommendations, calls>>
    /\ UNCHANGED outsideHybrid

\* hybrid.py 174-179: one iteration of the loop over movie_ids[:3].
CbfGetSimilar ==
    /\ pc = "cbf_similar"
    /\ SimilarCallsMade < Len(Prefix(movie_ids, CbfLikedLimit))
    /\ LET mid == movie_ids[SimilarCallsMade + 1]
           n   == (n_recommendations * 2) \div Max(Len(movie_ids), 1)
       IN \E outcome \in GetSimilarOutcomes(mid, n) :
            /\ calls' = Log("get_similar", outcome)
            /\ IF Escapes("get_similar", outcome)
               THEN pc' = "raised" /\ UNCHANGED cbf_recs
               ELSE /\ pc' = "cbf_similar"
                    /\ cbf_recs' = cbf_recs \o AdapterRows(outcome)
    /\ UNCHANGED <<user_id, movie_ids, genres, text_query, n_recommendations,
                   all_recommendations, recommendations>>
    /\ UNCHANGED outsideHybrid

\* hybrid.py 181-189: the text lookup, then _get_cbf_recommendations returns.
CbfGetRecommendationsForText ==
    /\ pc = "cbf_similar"
    /\ SimilarCallsMade = Len(Prefix(movie_ids, CbfLikedLimit))
    /\ IF text_query # ""
       THEN \E outcome \in GetRecommendationsForTextOutcomes(n_recommendations * 2) :
              /\ calls' = Log("get_recommendations_for_text", outcome)
              /\ IF Escapes("get_recommendations_for_text", outcome)
                 THEN pc' = "raised" /\ UNCHANGED cbf_recs
                 ELSE /\ pc' = "cbf_merge"
                      /\ cbf_recs' = cbf_recs \o AdapterRows(outcome)
       ELSE pc' = "cbf_merge" /\ UNCHANGED <<cbf_recs, calls>>
    /\ UNCHANGED <<user_id, movie_ids, genres, text_query, n_recommendations,
                   all_recommendations, recommendations>>
    /\ UNCHANGED outsideHybrid

\* hybrid.py 68-76: merge the CBF rows into the candidate dict.
MergeCbf ==
    /\ pc = "cbf_merge"
    /\ LET merged == MergeStrategy(all_recommendations, cbf_recs, "cbf")
       IN /\ all_recommendations' = merged.map
          /\ pc' = IF merged.err THEN "raised" ELSE "cf"
    /\ UNCHANGED <<user_id, movie_ids, genres, text_query, n_recommendations,
                   cbf_recs, recommendations, calls>>
    /\ UNCHANGED outsideHybrid

\* hybrid.py 78-99: collaborative filtering, only when user_id is truthy.
CollaborativeFiltering ==
    /\ pc = "cf"
    /\ IF user_id # 0
       THEN \E outcome \in GetRecommendationsForUserOutcomes(n_recommendations * 2) :
            \E known \in SUBSET {outcome.rows[i].movie_id : i \in 1..Len(outcome.rows)} :
              /\ calls' = Log("get_recommendations_for_user", outcome)
              /\ IF Escapes("get_recommendations_for_user", outcome)
                 THEN pc' = "raised" /\ UNCHANGED all_recommendations
                 ELSE /\ pc' = "semantic"
                      /\ all_recommendations' =
                            MergeCf(all_recommendations, AdapterRows(outcome), known)
       ELSE pc' = "semantic" /\ UNCHANGED <<all_recommendations, calls>>
    /\ UNCHANGED <<user_id, movie_ids, genres, text_query, n_recommendations,
                   cbf_recs, recommendations>>
    /\ UNCHANGED outsideHybrid

\* hybrid.py 101-114 with _get_semantic_recommendations (203-246).
SemanticSearch ==
    /\ pc = "semantic"
    /\ IF text_query # "" \/ genres # <<>>
       THEN \E outcome \in VectorSearchOutcomes(n_recommendations * 2) :
              /\ calls' = Log("vector_search", outcome)
              /\ IF Escapes("vector_search", outcome)
                 THEN pc' = "raised" /\ UNCHANGED all_recommendations
                 ELSE LET merged == MergeStrategy(all_recommendations,
                                                  AdapterRows(outcome), "semantic")
                      IN /\ all_recommendations' = merged.map
                         /\ pc' = IF merged.err THEN "raised" ELSE "genre_fallback"
       ELSE pc' = "genre_fallback" /\ UNCHANGED <<all_recommendations, calls>>
    /\ UNCHANGED <<user_id, movie_ids, genres, text_query, n_recommendations,
                   cbf_recs, recommendations>>
    /\ UNCHANGED outsideHybrid

\* hybrid.py 116-134: the genre fallback.
GenreFallback ==
    /\ pc = "genre_fallback"
    /\ IF genres # <<>> /\ Len(all_recommendations) < n_recommendations
       THEN \E outcome \in SearchMoviesOutcomes(genres, n_recommendations) :
              /\ calls' = Log("search_movies", outcome)
              /\ all_recommendations' =
                    MergeGenreFallback(all_recommendations, outcome.rows)
       ELSE UNCHANGED <<all_recommendations, calls>>
    /\ pc' = "final"
    /\ UNCHANGED <<user_id, movie_ids, genres, text_query, n_recommendations,
                   cbf_recs, recommendations>>
    /\ UNCHANGED outsideHybrid

\* hybrid.py 136-162: score, drop the liked movies, sort, truncate, return.
Finalize ==
    /\ pc = "final"
    /\ recommendations' =
          Truncate(SortByScore(ScoreItems(all_recommendations, movie_ids, genres)),
                   n_recommendations)
    /\ pc' = "returned"
    /\ UNCHANGED <<user_id, movie_ids, genres, text_query, n_recommendations,
                   cbf_recs, all_recommendations, calls>>
    /\ UNCHANGED outsideHybrid

NextHybrid ==
    \/ Recommend
    \/ CbfGetSimilar
    \/ CbfGetRecommendationsForText
    \/ MergeCbf
    \/ CollaborativeFiltering
    \/ SemanticSearch
    \/ GenreFallback
    \/ Finalize

(***************************************************************************)
(* GraphQueryService.find_similar_movies                                   *)
(***************************************************************************)
\* Java regex flag (?i): letters compare case-insensitively.
Lower(c) ==
    CASE c = "A" -> "a" [] c = "C" -> "c" [] c = "E" -> "e" [] c = "H" -> "h"
      [] c = "P" -> "p" [] c = "S" -> "s" [] c = "T" -> "t" [] c = "U" -> "u"
      [] c = "X" -> "x" [] OTHER -> c
LowerSeq(s) == [i \in 1..Len(s) |-> Lower(s[i])]

IsSubstring(p, t) ==
    \E i \in 0..(Len(t) - Len(p)) : SubSeq(t, i + 1, i + Len(p)) = p

\* m.title =~ "(?i).*<title>.*"
TitleMatches(title, m) == IsSubstring(LowerSeq(title), LowerSeq(MovieTitle(m)))

\* Variant: the title branch is tested first, so a title overrides the id.
SourceMatchesTitleFirst(id, title) ==
    IF title # <<>> THEN {m \in GraphMovies : TitleMatches(title, m)}
    ELSE {m \in GraphMovies : m = id}

\* graph_query_service.py 413-418: the Movie nodes the source query matches.
SourceMatches(id, title) ==
    IF id # 0 THEN {m \in GraphMovies : m = id}
    ELSE {m \in GraphMovies : TitleMatches(title, m)}

\* Variant: the call goes on to the queries without a source argument.
HasSourceArgumentAlways(id, title) == TRUE

\* `if movie_id: ... elif movie_title: ... else: return [], {}`
HasSourceArgument(id, title) == id # 0 \/ title # <<>>

\* Variant: no genre is ever counted as shared.
SharedGenresNone(src, c) == {}

SharedGenres(src, c)    == ToSet(MovieGenres(c)) \cap ToSet(MovieGenres(src))
SharedActors(src, c)    == MovieActors(c) \cap MovieActors(src)
SharedDirectors(src, c) == MovieDirectors(c) \cap MovieDirectors(src)
SameEra(src, c) ==
    IF ReleaseYear(c) # NoYear /\ ReleaseYear(src) # NoYear
    THEN Abs(ReleaseYear(c) - ReleaseYear(src)) <= 10
    ELSE FALSE
EraMatch(src, c) == IF SameEra(src, c) THEN 1 ELSE 0

\* Variant: the actor and director weights are exchanged.
SimilarityScoreSwapped(src, c, w) ==
    Cardinality(SharedGenres(src, c)) * w.genre
    + Cardinality(SharedActors(src, c)) * w.director
    + Cardinality(SharedDirectors(src, c)) * w.actor
    + EraMatch(src, c) * w.era

SimilarityScore(src, c, w) ==
    Cardinality(SharedGenres(src, c)) * w.genre
    + Cardinality(SharedActors(src, c)) * w.actor
    + Cardinality(SharedDirectors(src, c)) * w.director
    + EraMatch(src, c) * w.era

\* Variant: every Movie node is a candidate.
IsCandidateAny(src, c) == TRUE

\* WHERE candidate.movie_id <> source.movie_id
IsCandidate(src, c) == c # src

\* WHERE similarity_score > 0
Retained(src, w) ==
    {c \in GraphMovies : IsCandidate(src, c) /\ SimilarityScore(src, c, w) > 0}

\* Variant: the rows are ordered by similarity_score alone.
MayPrecedeByScore(src, w, a, b) ==
    SimilarityScore(src, a, w) >= SimilarityScore(src, b, w)

\* ORDER BY similarity_score DESC, candidate.vote_average DESC: a may
\* precede b.  Rows equal on both keys come in either order.
MayPrecede(src, w, a, b) ==
    \/ SimilarityScore(src, a, w) > SimilarityScore(src, b, w)
    \/ /\ SimilarityScore(src, a, w) = SimilarityScore(src, b, w)
       /\ VoteAverage(a) >= VoteAverage(b)

Orderings(src, w) ==
    LET S == Retained(src, w)
    IN {s \in [1..Cardinality(S) -> S] :
            /\ IsInjective(s)
            /\ \A i \in 1..(Len(s) - 1) : MayPrecede(src, w, s[i], s[i + 1])}

SimilarRow(src, c, w) ==
    [movie_id |-> c,
     similarity_score |-> SimilarityScore(src, c, w),
     vote_average |-> VoteAverage(c),
     genre_matches |-> Cardinality(SharedGenres(src, c)),
     actor_matches |-> Cardinality(SharedActors(src, c)),
     director_matches |-> Cardinality(SharedDirectors(src, c)),
     era_match |-> EraMatch(src, c)]

\* The empty dict returned as similarity_details.
EmptyDetails == [empty |-> TRUE, source_id |-> 0, total_found |-> 0]

SimIdChoices  == {0, 99} \cup GraphMovies
TitleChoices  == {<<>>, <<"h", "e", "a", "t">>, <<"U", "P">>, <<"z">>}
WeightChoices == {[genre |-> 5, actor |-> 3, director |-> 2, era |-> 1],
                  [genre |-> 1, actor |-> 3, director |-> 2, era |-> 1],
                  [genre |-> 0, actor |-> 3, director |-> 2, era |-> 1],
                  [genre |-> 0, actor |-> 0, director |-> 0, era |-> 1]}

\* graph_query_service.py 412-421: the call and its argument check.
FindSimilarMovies ==
    /\ sim_pc = "idle"
    /\ \E id \in SimIdChoices, title \in TitleChoices, limit \in 1..MaxLimit,
          w \in WeightChoices :
        /\ sim_movie_id' = id
        /\ sim_movie_title' = title
        /\ sim_limit' = limit
        /\ sim_weights' = w
        /\ sim_pc' = IF HasSourceArgument(id, title) THEN "source_query" ELSE "returned"
    /\ UNCHANGED <<source_record, movies, similarity_details, first_result>>
    /\ UNCHANGED outsideSimilar

\* graph_query_service.py 511-523: the source query and result.single().
\* A title query is LIMIT 1 without ORDER BY: any matching node may come.
RunSourceQuery ==
    /\ sim_pc = "source_query"
    /\ \/ \E m \in SourceMatches(sim_movie_id, sim_movie_title) :
            /\ source_record' = m
            /\ sim_pc' = "similarity_query"
       \/ /\ SourceMatches(sim_movie_id, sim_movie_title) = {}
          /\ source_record' = 0
          /\ sim_pc' = "returned"
       \/ \* the session or the query raises: `except Exception: return [], {}`
          /\ source_record' = 0
          /\ sim_pc' = "returned"
    /\ UNCHANGED <<sim_movie_id, sim_movie_title, sim_limit, sim_weights,
                   movies, similarity_details, first_result>>
    /\ UNCHANGED outsideSimilar

\* graph_query_service.py 525-571: the similarity query and the result.
RunSimilarityQuery ==
    /\ sim_pc = "similarity_query"
    /\ \/ \E s \in Orderings(source_record, sim_weights) :
            LET top == Prefix(s, sim_limit)
            IN /\ movies' = [i \in 1..Len(top) |->
                                SimilarRow(source_record, top[i], sim_weights)]
               /\ similarity_details' = [empty |-> FALSE, source_id |-> source_record,
                                         total_found |-> Len(top)]
       \/ \* the query raises: `except Exception: return [], {}`
          UNCHANGED <<movies, similarity_details>>
    /\ sim_pc' = "returned"
    /\ UNCHANGED <<sim_movie_id, sim_movie_title, sim_limit, sim_weights,
                   source_record, first_result>>
    /\ UNCHANGED outsideSimilar

\* The caller repeats the call with the same arguments on the same graph;
\* the first call's return value is kept for comparison.
FindSimilarMoviesAgain ==
    /\ sim_pc = "returned"
    /\ first_result = <<>>
    /\ first_result' = <<[movies |-> movies, similarity_details |-> similarity_details]>>
    /\ movies' = <<>>
    /\ similarity_details' = EmptyDetails
    /\ source_record' = 0
    /\ sim_pc' = IF HasSourceArgument(sim_movie_id, sim_movie_title)
                 THEN "source_query" ELSE "returned"
    /\ UNCHANGED <<sim_movie_id, sim_movie_title, sim_limit, sim_weights>>
    /\ UNCHANGED outsideSimilar

NextSimilar ==
    \/ FindSimilarMovies
    \/ RunSourceQuery
    \/ RunSimilarityQuery
    \/ FindSimilarMoviesAgain

(***************************************************************************)
(* The merge of hybrid.py 63-134 with the three strategy blocks taken in   *)
(* any order, on fixed adapter results.                                    *)
(***************************************************************************)
StrategyOrders ==
    {o \in [1..3 -> {"cbf", "cf", "semantic"}] : IsInjective(o)}

CodeOrder == <<"cbf", "cf", "semantic">>

\* Rows of a call that answered with scored rows.
ScoredAnswers(outcomes) == {o.rows : o \in {x \in outcomes : x.kind = "scored"}}

\* One strategy block of recommend applied to the candidate dict.
MergeBlock(map, strategy, input) ==
    CASE strategy = "cbf"      -> MergeStrategy(map, input.cbf, "cbf").map
      [] strategy = "cf"       -> MergeCf(map, input.cf, input.known)
      [] strategy = "semantic" -> MergeStrategy(map, input.semantic, "semantic").map

RECURSIVE MergeInOrder(_, _, _)
MergeInOrder(map, order, input) ==
    IF order = <<>> THEN map
    ELSE MergeInOrder(MergeBlock(map, Head(order), input), Tail(order), input)

\* hybrid.py 116-134 on a healthy database.
ApplyGenreFallback(map, gs, n) ==
    IF gs # <<>> /\ Len(map) < n
    THEN MergeGenreFallback(map, SearchMoviesRows(gs, n))
    ELSE map

\* hybrid.py 136-162 after the fallback.
ReturnedList(map, input) ==
    Truncate(SortByScore(ScoreItems(ApplyGenreFallback(map, input.genres, input.n),
                                    <<>>, input.genres)),
             input.n)

\* The adapters have answered; the merge order is chosen.
MergeOrderStart ==
    /\ mo_pc = "idle"
    /\ \E n \in 1..MaxN, gs \in GenreChoices, o \in StrategyOrders :
       \E cbf \in ScoredAnswers(GetRecommendationsForTextOutcomes(n * 2)),
          cf \in ScoredAnswers(GetRecommendationsForUserOutcomes(n * 2)),
          sem \in ScoredAnswers(VectorSearchOutcomes(n * 2)) :
       \E known \in SUBSET {cf[i].movie_id : i \in 1..Len(cf)} :
          /\ mo_input' = [cbf |-> cbf, cf |-> cf, known |-> known, semantic |-> sem,
                          genres |-> gs, n |-> n]
          /\ mo_order' = o
    /\ mo_map' = <<>>
    /\ mo_pc' = "merging"
    /\ UNCHANGED mo_result
    /\ UNCHANGED outsideMerge

\* The next strategy's rows are merged into the candidate dict.
MergeOrderStep ==
    /\ mo_pc = "merging"
    /\ mo_order # <<>>
    /\ mo_map' = MergeBlock(mo_map, Head(mo_order), mo_input)
    /\ mo_order' = Tail(mo_order)
    /\ UNCHANGED <<mo_pc, mo_input, mo_result>>
    /\ UNCHANGED outsideMerge

\* Genre fallback, scoring, sort and truncation.
MergeOrderFinish ==
    /\ mo_pc = "merging"
    /\ mo_order = <<>>
    /\ mo_result' = ReturnedList(mo_map, mo_input)
    /\ mo_pc' = "returned"
    /\ UNCHANGED <<mo_input, mo_order, mo_map>>
    /\ UNCHANGED outsideMerge

NextMergeOrder ==
    \/ MergeOrderStart
    \/ MergeOrderStep
    \/ MergeOrderFinish

(***************************************************************************)
(* IntentClassifier (backend/services/intent_classifier.py).  Queries are  *)
(* strings; the regular expressions of the class are written out as        *)
(* searches for their literal alternatives followed by their capture.      *)
(***************************************************************************)
UpperLetters == "ABCDEFGHIJKLMNOPQRSTUVWXYZ"
LowerLetters == "abcdefghijklmnopqrstuvwxyz"
Digits       == "0123456789"

CharAt(s, i) == SubSeq(s, i, i)
CharsOf(alphabet) == {CharAt(alphabet, i) : i \in 1..Len(alphabet)}
\* Maps each character of `from` to the character at its place in `to`.
CharMap(from, to) ==
    [c \in CharsOf(from) |-> CharAt(to, CHOOSE i \in 1..Len(from) : CharAt(from, i) = c)]
UpperSet == CharsOf(UpperLetters)
LowerSet == CharsOf(LowerLetters)
DigitSet == CharsOf(Digits)
WordSet  == UpperSet \cup LowerSet \cup DigitSet \cup {"_"}
ToLowerMap == CharMap(UpperLetters, LowerLetters)
ToUpperMap == CharMap(LowerLetters, UpperLetters)
DigitValue == [c \in DigitSet |-> (CHOOSE i \in 1..10 : CharAt(Digits, i) = c) - 1]

Minimum(S) == CHOOSE x \in S : \A o \in S : x <= o
Maximum(S) == CHOOSE x \in S : \A o \in S : x >= o
MinimumOr(S, none) == IF S = {} THEN none ELSE Minimum(S)
\* The element of seq at the first of the positions ok, none without one.
FirstAmong(seq, ok, none) == IF ok = {} THEN none ELSE seq[Minimum(ok)]

\* str.lower()
LowerChar(c) == IF c \in UpperSet THEN ToLowerMap[c] ELSE c
UpperChar(c) == IF c \in LowerSet THEN ToUpperMap[c] ELSE c
RECURSIVE StrLower(_)
StrLower(s) == IF s = "" THEN "" ELSE LowerChar(Head(s)) \o StrLower(Tail(s))

\* str.title(): a letter after a non-letter is upper case, any other lower.
RECURSIVE TitleFrom(_, _)
TitleFrom(s, afterLetter) ==
    IF s = "" THEN ""
    ELSE (IF afterLetter THEN LowerChar(Head(s)) ELSE UpperChar(Head(s)))
         \o TitleFrom(Tail(s), Head(s) \in UpperSet \cup LowerSet)
StrTitle(s) == TitleFrom(s, FALSE)

\* `sub in s`
Contains(s, sub) == \E i \in 0..(Len(s) - Len(sub)) : SubSeq(s, i + 1, i + Len(sub)) = sub
ContainsAny(s, subs) == \E k \in 1..Len(subs) : Contains(s, subs[k])

\* The literal lit stands at position i of s.  A search under
\* re.IGNORECASE looks for the lower-case literal in the lower-cased text.
LiteralAt(s, i, lit) ==
    /\ i >= 1
    /\ i + Len(lit) - 1 <= Len(s)
    /\ SubSeq(s, i, i + Len(lit) - 1) = lit

\* Length of the longest run, from position i on, of characters that are
\* in chars (inside) or not in chars (~inside).
RunLength(s, i, chars, inside) ==
    Minimum({j \in i..Len(s) : (CharAt(s, j) \in chars) # inside} \cup {Len(s) + 1}) - i

\* str.strip(chars)
RECURSIVE StripLeft(_, _)
StripLeft(s, chars) ==
    IF s # "" /\ Head(s) \in chars THEN StripLeft(Tail(s), chars) ELSE s
RECURSIVE StripRight(_, _)
StripRight(s, chars) ==
    IF s # "" /\ CharAt(s, Len(s)) \in chars
    THEN StripRight(SubSeq(s, 1, Len(s) - 1), chars) ELSE s
Strip(s, chars) == StripRight(StripLeft(s, chars), chars)
Whitespace == {" "}

\* Concatenations of one element of each sequence, in order.
Cross2(a, b) == [i \in 1..(Len(a) * Len(b)) |->
                    a[((i - 1) \div Len(b)) + 1] \o b[((i - 1) % Len(b)) + 1]]

\* SIMILAR_PATTERNS: the literal part of each pattern, alternatives written
\* out; after it come ["']? and the capture ([^"'\?]+).
LikeOrSimilarTo == <<" like ", " similar to ">>
SimilarLiterals ==
    << Cross2(<<"movies", "movie", "films", "film">>, LikeOrSimilarTo),
       Cross2(<<"something", "anything">>, LikeOrSimilarTo),
       <<"similar ", "like ">>,
       Cross2(Cross2(<<"more", "other">>, <<" movies", " movie", " films", " film">>),
              <<" like ">>),
       <<"if i liked ", "if i like ", "i loved ", "i love ", "i enjoyed ", "i enjoy ">>,
       <<"like ", "similar to ">> >>      \* after "recommend.*"

\* Characters the captures [^"'\?]+ and [^"'\?,]+ stop at.
TitleStops      == {"\"", "'", "?"}
TitleStopsComma == {"\"", "'", "?", ","}

\* Start of the capture when the literal part ends before position j: an
\* optional quote is skipped; 0 when no title character follows.
CaptureStart(s, j, stops) ==
    IF j <= Len(s) /\ CharAt(s, j) \in {"\"", "'"}
    THEN IF j + 1 <= Len(s) /\ CharAt(s, j + 1) \notin stops THEN j + 1 ELSE 0
    ELSE IF j <= Len(s) /\ CharAt(s, j) \notin stops THEN j ELSE 0

\* Capture starts of the matches of `literal ["']? (capture)` that begin at
\* position i of s; sl is s in lower case.
CapturesAt(s, sl, i, lits, stops) ==
    {CaptureStart(s, i + Len(lits[k]), stops) :
        k \in {x \in 1..Len(lits) : LiteralAt(sl, i, lits[x])}} \ {0}

\* The text captured from position c on.
CaptureFrom(s, c, stops) == SubSeq(s, c, c + RunLength(s, c, stops, FALSE) - 1)

\* The capture of the match that begins at the first (or last) of the
\* positions `at`; "" when there is no position.
CaptureAmong(s, sl, lits, stops, at, last) ==
    IF at = {} THEN ""
    ELSE CaptureFrom(s, Minimum(CapturesAt(s, sl,
                                           IF last THEN Maximum(at) ELSE Minimum(at),
                                           lits, stops)), stops)

\* re.search with re.IGNORECASE: the capture of the leftmost match, "" when
\* there is none.
SearchCapture(s, sl, lits, stops) ==
    CaptureAmong(s, sl, lits, stops,
                 {i \in 1..Len(s) : CapturesAt(s, sl, i, lits, stops) # {}}, FALSE)

\* re.search of r"recommend.*(?:like|similar to) [\"']?([^\"'\?]+)[\"']?":
\* the greedy .* takes the last like / similar to that a title follows.
SearchRecommendCapture(s, sl, lits) ==
    CaptureAmong(s, sl, lits, TitleStops,
                 {j \in 1..Len(s) :
                     /\ \E i \in 1..(j - 9) : LiteralAt(sl, i, "recommend")
                     /\ CapturesAt(s, sl, j, lits, TitleStops) # {}}, TRUE)

\* re.sub(r'\s+(but|and|with|that|which|please|thanks).*$', '', title):
\* the title is cut at the first blank that one of the words follows.
TrailingWords == <<"but", "and", "with", "that", "which", "please", "thanks">>
TrailingWordBlanks(t, tl) ==
    {i \in 1..Len(t) :
        /\ CharAt(t, i) = " "
        /\ \E k \in 1..Len(TrailingWords) :
              LiteralAt(tl, i + RunLength(t, i, Whitespace, TRUE), TrailingWords[k])}
CutAt(t, cuts) == SubSeq(t, 1, MinimumOr(cuts, Len(t) + 1) - 1)
CutTrailingWords(t) == CutAt(t, TrailingWordBlanks(t, StrLower(t)))

\* intent_classifier.py 222-225
CleanTitle(captured) ==
    Strip(CutTrailingWords(Strip(captured, Whitespace)), {" ", ".", ",", "!", "?"})

\* The capture of pattern number p in the query (query_lower is the query
\* in lower case), "" when the pattern does not match.
SimilarCapture(query, query_lower, p) ==
    CASE p = 5 -> SearchCapture(query, query_lower, SimilarLiterals[5], TitleStopsComma)
      [] p = 6 -> SearchRecommendCapture(query, query_lower, SimilarLiterals[6])
      [] OTHER -> SearchCapture(query, query_lower, SimilarLiterals[p], TitleStops)

MinTitleLength == 2     \* `if len(movie_title) >= 2`

\* The first of the texts that is long enough for a title, "" when none is.
FirstTitle(titles) ==
    FirstAmong(titles, {p \in 1..Len(titles) : Len(titles[p]) >= MinTitleLength}, "")

\* IntentClassifier._extract_similar_movie: the cleaned capture of the first
\* pattern for which it is long enough; "" stands for None.
ExtractSimilarMovie(query) ==
    FirstTitle([p \in 1..Len(SimilarLiterals) |->
                    CleanTitle(SimilarCapture(query, StrLower(query), p))])

KNOWN_DIRECTORS ==
    <<"Christopher Nolan", "Steven Spielberg", "Martin Scorsese",
      "Quentin Tarantino", "James Cameron", "David Fincher",
      "Ridley Scott", "Denis Villeneuve", "Wes Anderson",
      "Coen Brothers", "Stanley Kubrick", "Alfred Hitchcock",
      "Francis Ford Coppola", "Tim Burton", "Peter Jackson",
      "Guillermo del Toro", "George Lucas", "Robert Zemeckis">>

KNOWN_ACTORS ==
    <<"Tom Hanks", "Leonardo DiCaprio", "Brad Pitt",
      "Morgan Freeman", "Robert De Niro", "Al Pacino",
      "Tom Cruise", "Will Smith", "Denzel Washington",
      "Johnny Depp", "Christian Bale", "Matt Damon",
      "Scarlett Johansson", "Jennifer Lawrence", "Meryl Streep",
      "Natalie Portman", "Emma Stone", "Anne Hathaway">>

NON_NAME_WORDS ==
    {"mind", "bending", "thriller", "action", "comedy", "horror", "scary",
     "funny", "great", "best", "good", "classic", "modern", "old", "new",
     "feel", "bad", "fast", "slow", "long", "short", "high", "low",
     "dark", "light", "black", "white", "big", "small", "real", "fake",
     "thought", "provoking", "heart", "warming", "edge", "seat", "must",
     "watch", "highly", "rated", "award", "winning", "critically", "acclaimed"}

\* The literal parts of DIRECTOR_PATTERNS and ACTOR_PATTERNS; the capture
\* ([A-Z][a-z]+ [A-Z][a-z]+) follows each.
DirectorLiterals ==
    << Cross2(<<"directed by ", "made by ", "created by ">>, <<"director ", "">>),
       <<"director ">>,
       <<"by director ">> >>
ActorLiterals ==
    << <<"starring ", "featuring ">>,
       <<"movies with ", "movies starring ">>,
       <<"actor ">> >>

\* Length of a match of [A-Z][a-z]+ at position i, 0 when there is none.
CapitalisedLength(s, i) ==
    IF i <= Len(s) /\ CharAt(s, i) \in UpperSet /\ RunLength(s, i + 1, LowerSet, TRUE) >= 1
    THEN 1 + RunLength(s, i + 1, LowerSet, TRUE) ELSE 0

\* Length of a match of [A-Z][a-z]+ [A-Z][a-z]+ at position i whose first
\* word has length a, 0 when there is none.
NameLengthAfter(s, i, a) ==
    IF /\ a > 0
       /\ i + a <= Len(s)
       /\ CharAt(s, i + a) = " "
       /\ CapitalisedLength(s, i + a + 1) > 0
    THEN a + 1 + CapitalisedLength(s, i + a + 1) ELSE 0
NameLength(s, i) == NameLengthAfter(s, i, CapitalisedLength(s, i))

\* <<start, length>> of the names of the matches of `literal (name)` that
\* begin at position i.
NamesAt(s, i, lits) ==
    {m \in {<<i + Len(lits[k]), NameLength(s, i + Len(lits[k]))>> :
               k \in {y \in 1..Len(lits) : LiteralAt(s, i, lits[y])}} : m[2] > 0}

NameOf(s, m) == SubSeq(s, m[1], m[1] + m[2] - 1)
NameAmong(s, lits, at) ==
    IF at = {} THEN ""
    ELSE NameOf(s, CHOOSE y \in NamesAt(s, Minimum(at), lits) :
                      \A o \in NamesAt(s, Minimum(at), lits) : y[1] >= o[1])

\* re.search without re.IGNORECASE: the name of the leftmost match, "" when
\* there is none.
SearchName(s, lits) == NameAmong(s, lits, {i \in 1..Len(s) : NamesAt(s, i, lits) # {}})

\* name.lower().split(): the words begin where a blank or nothing precedes.
WordStarts(s) ==
    {i \in 1..Len(s) : CharAt(s, i) # " " /\ (i = 1 \/ CharAt(s, i - 1) = " ")}
WordAt(s, i) == SubSeq(s, i, i + RunLength(s, i, Whitespace, FALSE) - 1)

\* IntentClassifier._is_valid_name
IsValidName(name) ==
    /\ \A i \in WordStarts(name) : StrLower(WordAt(name, i)) \notin NON_NAME_WORDS
    /\ Cardinality(WordStarts(name)) >= 2

\* The first known name contained in the query, case-insensitively.
FirstKnown(query_lower, known) ==
    FirstAmong(known,
               {k \in 1..Len(known) : Contains(query_lower, StrLower(known[k]))}, "")

\* `if match: name = match.group(1); if self._is_valid_name(name): return
\* name.title()`; "" when the pattern gives no name.
ValidTitled(name) == IF name # "" /\ IsValidName(name) THEN StrTitle(name) ELSE ""
FirstNonEmpty(texts) ==
    FirstAmong(texts, {p \in 1..Len(texts) : texts[p] # ""}, "")

\* The first pattern with a match whose name is valid; "" stands for None.
NameFromPatterns(query, patterns) ==
    FirstNonEmpty([p \in 1..Len(patterns) |-> ValidTitled(SearchName(query, patterns[p]))])

KnownOr(known, other) == IF known # "" THEN known ELSE other

\* IntentClassifier._extract_director / _extract_actor
ExtractDirector(query) ==
    KnownOr(FirstKnown(StrLower(query), KNOWN_DIRECTORS),
            NameFromPatterns(query, DirectorLiterals))
ExtractActor(query) ==
    KnownOr(FirstKnown(StrLower(query), KNOWN_ACTORS),
            NameFromPatterns(query, ActorLiterals))

\* GENRE_KEYWORDS in dict order: <<genre, keywords>>.
GENRE_KEYWORDS ==
    << <<"action", <<"action", "fight", "explosive", "combat">> >>,
       <<"comedy", <<"comedy", "funny", "hilarious", "laugh">> >>,
       <<"drama", <<"drama", "dramatic", "emotional">> >>,
       <<"horror", <<"horror", "scary", "terrifying", "frightening">> >>,
       <<"sci-fi", <<"sci-fi", "science fiction", "futuristic", "space">> >>,
       <<"science fiction", <<"science fiction", "sci-fi">> >>,
       <<"romance", <<"romance", "romantic", "love story">> >>,
       <<"thriller", <<"thriller", "suspense", "tense", "suspenseful">> >>,
       <<"animation", <<"animation", "animated", "cartoon">> >>,
       <<"documentary", <<"documentary", "real story", "true story">> >>,
       <<"fantasy", <<"fantasy", "magical", "mythical">> >>,
       <<"adventure", <<"adventure", "epic journey">> >>,
       <<"mystery", <<"mystery", "detective", "whodunit">> >>,
       <<"crime", <<"crime", "criminal", "heist">> >>,
       <<"war", <<"war", "military", "battlefield">> >>,
       <<"western", <<"western", "cowboy">> >>,
       <<"family", <<"family", "kids", "children">> >>,
       <<"musical", <<"musical", "singing", "songs">> >> >>

NormalizeGenre(genre) ==
    IF StrTitle(genre) = "Sci-Fi" THEN "Science Fiction" ELSE StrTitle(genre)

\* IntentClassifier._extract_genres
RECURSIVE ExtractGenresFrom(_, _)
ExtractGenresFrom(query_lower, g) ==
    IF g > Len(GENRE_KEYWORDS) THEN <<>>
    ELSE (IF ContainsAny(query_lower, GENRE_KEYWORDS[g][2])
          THEN <<NormalizeGenre(GENRE_KEYWORDS[g][1])>> ELSE <<>>)
         \o ExtractGenresFrom(query_lower, g + 1)
ExtractGenres(query_lower) == ExtractGenresFrom(query_lower, 1)

\* int() of a string of digits.
RECURSIVE ToInt(_)
ToInt(s) ==
    IF s = "" THEN 0
    ELSE 10 * ToInt(SubSeq(s, 1, Len(s) - 1)) + DigitValue[CharAt(s, Len(s))]

DigitsAt(s, i, n) ==
    /\ i >= 1
    /\ i + n - 1 <= Len(s)
    /\ \A j \in i..(i + n - 1) : CharAt(s, j) \in DigitSet

\* YEAR_PATTERNS: <<text before the four digits, text after them>>, with
\* r"released (?:in )?(\d{4})" written as its two alternatives.
YEAR_PATTERNS ==
    << << <<"from ", "">> >>,
       << <<"in ", "">> >>,
       << <<"", " movies">> >>,
       << <<"", "s">> >>,
       << <<"released in ", "">>, <<"released ", "">> >> >>

\* Positions of the digits of the matches of one pattern that begin at i.
YearDigitsAt(s, i, alts) ==
    {i + Len(alts[k][1]) :
        k \in {y \in 1..Len(alts) :
                 /\ LiteralAt(s, i, alts[y][1])
                 /\ DigitsAt(s, i + Len(alts[y][1]), 4)
                 /\ LiteralAt(s, i + Len(alts[y][1]) + 4, alts[y][2])}}

YearAt(s, d) == ToInt(SubSeq(s, d, d + 3))
YearAmong(s, alts, at) ==
    IF at = {} THEN 0 ELSE YearAt(s, Maximum(YearDigitsAt(s, Minimum(at), alts)))

\* re.search(pattern, query): the year of the leftmost match, 0 when none.
SearchYear(s, alts) == YearAmong(s, alts, {i \in 1..Len(s) : YearDigitsAt(s, i, alts) # {}})

\* `if 1900 <= year <= 2030: return year` for the first pattern that
\* matches so.
FirstYear(years) ==
    FirstAmong(years, {p \in 1..Len(years) : 1900 <= years[p] /\ years[p] <= 2030}, 0)

\* IntentClassifier._extract_year; 0 stands for None.
ExtractYear(query) ==
    FirstYear([p \in 1..Len(YEAR_PATTERNS) |-> SearchYear(query, YEAR_PATTERNS[p])])

\* Leftmost match of (\d{n})s\b: position of its digits, 0 when none.
DecadeTokenAt(s, n) ==
    MinimumOr({i \in 1..Len(s) :
                 /\ DigitsAt(s, i, n)
                 /\ LiteralAt(s, i + n, "s")
                 /\ (i + n + 1 > Len(s) \/ CharAt(s, i + n + 1) \notin WordSet)}, 0)

DecadeOf(start_year) == <<start_year, start_year + 9>>
\* `start_year = 2000 + decade_short if decade_short < 30 else 1900 + ...`
ShortDecadeStart(decade_short) ==
    IF decade_short < 30 THEN 2000 + decade_short ELSE 1900 + decade_short
DecadeFrom(s, two, four) ==
    IF two # 0 THEN DecadeOf(ShortDecadeStart(ToInt(SubSeq(s, two, two + 1))))
    ELSE IF four # 0 THEN DecadeOf(ToInt(SubSeq(s, four, four + 3)))
    ELSE <<>>

\* IntentClassifier._extract_decade; <<>> stands for None.
ExtractDecade(query_lower) ==
    DecadeFrom(query_lower, DecadeTokenAt(query_lower, 2), DecadeTokenAt(query_lower, 4))

DESCRIPTIVE_KEYWORDS ==
    <<"suggest", "recommend", "something", "anything",
      "best", "top", "good", "great", "amazing",
      "underrated", "hidden gem", "classic",
      "mood", "feel", "vibe">>

\* IntentClassifier._is_descriptive_query
IsDescriptiveQuery(query_lower) == ContainsAny(query_lower, DESCRIPTIVE_KEYWORDS)

\* Length of the first of the alternatives that stands at the head of sl,
\* 0 when none does.
HeadMatchLength(sl, lits) ==
    Len(FirstAmong(lits, {k \in 1..Len(lits) : LiteralAt(sl, 1, lits[k])}, ""))
Drop(s, n) == SubSeq(s, n + 1, Len(s))

\* re.sub(pattern, "", s, flags=re.IGNORECASE) for a pattern that is a list
\* of literal alternatives, tried in order at each position; sl is s in
\* lower case and the alternatives are in lower case.
RECURSIVE RemoveAll(_, _, _)
RemoveAll(s, sl, lits) ==
    IF s = "" THEN ""
    ELSE IF HeadMatchLength(sl, lits) > 0
         THEN RemoveAll(Drop(s, HeadMatchLength(sl, lits)),
                        Drop(sl, HeadMatchLength(sl, lits)), lits)
         ELSE Head(s) \o RemoveAll(Tail(s), Tail(sl), lits)

RECURSIVE RemoveEach(_, _)
RemoveEach(s, patterns) ==
    IF patterns = <<>> THEN s
    ELSE RemoveEach(RemoveAll(s, StrLower(s), Head(patterns)), Tail(patterns))

\* re.sub(r'\s+', ' ', s)
RECURSIVE CollapseBlanks(_)
CollapseBlanks(s) ==
    IF s = "" THEN ""
    ELSE IF Head(s) = " "
         THEN " " \o CollapseBlanks(StripLeft(s, Whitespace))
         ELSE Head(s) \o CollapseBlanks(Tail(s))

\* The patterns built from re.escape(name), in lower case.
DirectorPhrases(name) ==
    << <<"directed by director " \o name, "directed by " \o name>>,
       <<name \o "'s", name \o " movies", name \o " films">>,
       <<"by " \o name>> >>
ActorPhrases(name) ==
    << <<"starring " \o name, "with " \o name, "featuring " \o name>>,
       <<name \o " movies">> >>

\* `if entities.get("director"): for pattern in patterns: cleaned = re.sub(...)`
RemoveNamed(s, name, phrases) == IF name # "" THEN RemoveEach(s, phrases) ELSE s
\* `return cleaned if cleaned else query`
CleanedOr(cleaned, query) == IF cleaned # "" THEN cleaned ELSE query

\* IntentClassifier._clean_for_cbf
CleanForCbf(query, entities) ==
    CleanedOr(Strip(CollapseBlanks(
                  RemoveNamed(RemoveNamed(query, entities.director,
                                          DirectorPhrases(StrLower(entities.director))),
                              entities.actor,
                              ActorPhrases(StrLower(entities.actor)))),
                    Whitespace),
              query)

\* QueryIntent(original_query=query, semantic_query=query).  An entity or
\* filter that is not set is "", <<>> or 0; confidence is in hundredths.
NewIntent(query) ==
    [search_types |-> <<>>,
     entities |-> [director |-> "", actor |-> "", genres |-> <<>>],
     filters |-> [year |-> 0, decade |-> <<>>],
     original_query |-> query,
     confidence |-> 0,
     semantic_query |-> query,
     similar_to_movie |-> ""]

\* Variant: the similarity branch goes on to the entity extraction.
ShortCircuitsNever(similar_movie) == FALSE

\* `if similar_movie: ... return intent`
ShortCircuits(similar_movie) == similar_movie # ""

\* Variant: a descriptive query with structured entities is sent to GRAPH.
SearchTypeForGraphFirst(has_structured, is_descriptive) ==
    CASE has_structured  -> "graph"
      [] is_descriptive  -> "cbf"
      [] OTHER           -> "hybrid"

\* intent_classifier.py 193-212: the search type of a non-similarity query.
SearchTypeFor(has_structured, is_descriptive) ==
    CASE has_structured /\ is_descriptive -> "hybrid"
      [] has_structured                   -> "graph"
      [] is_descriptive                   -> "cbf"
      [] OTHER                            -> "hybrid"

ConfidenceFor(has_structured, is_descriptive) ==
    CASE has_structured /\ is_descriptive -> 90
      [] has_structured                   -> 95
      [] is_descriptive                   -> 80
      [] OTHER                            -> 50

\* intent_classifier.py 171-184: the entities and filters are extracted.
ExtractEntities(query, query_lower) ==
    [NewIntent(query) EXCEPT
       !.entities = [director |-> ExtractDirector(query),
                     actor    |-> ExtractActor(query),
                     genres   |-> ExtractGenres(query_lower)],
       !.filters  = [year   |-> ExtractYear(query),
                     decade |-> ExtractDecade(query_lower)]]

\* intent_classifier.py 186-191
HasStructured(entities, filters) ==
    \/ entities.director # ""
    \/ entities.actor # ""
    \/ entities.genres # <<>>
    \/ filters.year # 0

\* intent_classifier.py 193-212: search types, confidence and semantic
\* query of an intent whose entities are extracted.
DetermineSearchTypes(extracted, has_structured, is_descriptive) ==
    [extracted EXCEPT
       !.search_types = <<SearchTypeFor(has_structured, is_descriptive)>>,
       !.confidence = ConfidenceFor(has_structured, is_descriptive),
       !.semantic_query = IF has_structured /\ is_descriptive
                          THEN CleanForCbf(extracted.original_query, extracted.entities)
                          ELSE extracted.original_query]

\* intent_classifier.py 162-168: the intent of a similarity query.
SimilarIntent(query, similar_movie) ==
    [NewIntent(query) EXCEPT !.similar_to_movie = similar_movie,
                             !.search_types = <<"similar">>,
                             !.confidence = 95]

\* IntentClassifier.classify after the similarity check.
ClassifyExtracted(extracted, is_descriptive) ==
    DetermineSearchTypes(extracted,
                         HasStructured(extracted.entities, extracted.filters),
                         is_descriptive)
ClassifyEntities(query) ==
    ClassifyExtracted(ExtractEntities(query, StrLower(query)),
                      IsDescriptiveQuery(StrLower(query)))

\* IntentClassifier.classify
ClassifySimilar(query, similar_movie) ==
    IF ShortCircuits(similar_movie) THEN SimilarIntent(query, similar_movie)
    ELSE ClassifyEntities(query)
ClassifyQuery(query) == ClassifySimilar(query, ExtractSimilarMovie(query))

\* Texts a query is put together from.
Phrases ==
    <<"movies like Inception", "directed by Christopher Nolan", "best",
      "90s movies", "starring Jane Doe", "something similar to 'Heat' please",
      "sci-fi", "from 1994", "zzz", "like x", "hidden gem", "Tom Hanks movies",
      "I loved Alien, thanks", "1920s", "Brad Pitt drama", "made by Great Scott",
      "2010s">>

Queries ==
    {Phrases[i] : i \in 1..NumPhrases}
    \cup {Phrases[i] \o " " \o Phrases[j] : i, j \in 1..NumPhrases}

\* A caller invokes classify(query); the intent is returned.
Classify ==
    /\ cl_pc = "idle"
    /\ \E q \in Queries :
        /\ cl_query' = q
        /\ intent' = ClassifyQuery(q)
    /\ cl_pc' = "classified"
    /\ UNCHANGED outsideClassify

NextClassify == Classify


(***************************************************************************)
(* ContentBasedFilter._load_or_compute (backend/models/cbf.py 28-104),     *)
(* entered by several threads through get_similar.  A field holds the      *)
(* number of the load whose data it was assigned from, 0 before any;       *)
(* _movie_indices holds the numbers of all loads that wrote into the dict. *)
(***************************************************************************)
\* ContentBasedFilter.__init__
NewModel ==
    [tfidf_vectorizer |-> 0, tfidf_matrix |-> 0, movie_indices |-> {},
     movies_data |-> 0, loaded |-> FALSE]

\* Order of the assignments when cbf_model.pkl exists (cbf.py 39-42) and in
\* _compute_from_database (cbf.py 63, 68, 85, 90).
LoadOrders ==
    [disk     |-> <<"tfidf_vectorizer", "tfidf_matrix", "movie_indices", "movies_data">>,
     database |-> <<"movies_data", "movie_indices", "tfidf_vectorizer", "tfidf_matrix">>]

\* The model after one assignment of load number k.  From disk the dict is
\* replaced (cbf.py 41); computing from the database writes into the dict
\* that is there (cbf.py 68).
AssignedField(model, field, k, replaces) ==
    IF field = "movie_indices"
    THEN [model EXCEPT !.movie_indices = IF replaces THEN {k} ELSE @ \cup {k}]
    ELSE [model EXCEPT ![field] = k]

NothingSeen == [tfidf_matrix |-> 0, movie_indices |-> {}, movies_data |-> 0]

\* A thread calls get_similar (cbf.py 106-114).
GetSimilar(t) ==
    /\ ld_pc[t] = "idle"
    /\ ld_pc' = [ld_pc EXCEPT ![t] = "check"]
    /\ UNCHANGED <<ld_load, ld_order, ld_loads, cbf_model, ld_seen>>
    /\ UNCHANGED outsideLoad

\* `if self._loaded: return` (cbf.py 30-31)
CheckLoaded(t) ==
    /\ ld_pc[t] = "check"
    /\ ld_pc' = [ld_pc EXCEPT ![t] = IF cbf_model.loaded THEN "read_matrix" ELSE "load"]
    /\ UNCHANGED <<ld_load, ld_order, ld_loads, cbf_model, ld_seen>>
    /\ UNCHANGED outsideLoad

\* The load begins: pickle.load of the model file when it exists (cbf.py
\* 35-38), else neo4j_service.search_movies (cbf.py 50, 56).
StartLoad(t) ==
    /\ ld_pc[t] = "load"
    /\ \E path \in {"disk", "database"} :
         ld_order' = [ld_order EXCEPT ![t] = <<path, LoadOrders[path]>>]
    /\ ld_loads' = ld_loads + 1
    /\ ld_load' = [ld_load EXCEPT ![t] = ld_loads + 1]
    /\ ld_pc' = [ld_pc EXCEPT ![t] = "assign"]
    /\ UNCHANGED <<cbf_model, ld_seen>>
    /\ UNCHANGED outsideLoad

\* One `self._field = ...` of the load.
AssignField(t) ==
    /\ ld_pc[t] = "assign"
    /\ cbf_model' = AssignedField(cbf_model, Head(ld_order[t][2]), ld_load[t],
                                  ld_order[t][1] = "disk")
    /\ ld_order' = [ld_order EXCEPT ![t] = <<@[1], Tail(@[2])>>]
    /\ ld_pc' = [ld_pc EXCEPT ![t] = IF Len(ld_order[t][2]) = 1 THEN "set_loaded"
                                     ELSE "assign"]
    /\ UNCHANGED <<ld_load, ld_loads, ld_seen>>
    /\ UNCHANGED outsideLoad

\* `self._loaded = True` (cbf.py 43, 91)
SetLoaded(t) ==
    /\ ld_pc[t] = "set_loaded"
    /\ cbf_model' = [cbf_model EXCEPT !.loaded = TRUE]
    /\ ld_pc' = [ld_pc EXCEPT ![t] = "read_matrix"]
    /\ UNCHANGED <<ld_load, ld_order, ld_loads, ld_seen>>
    /\ UNCHANGED outsideLoad

\* get_similar reads self._tfidf_matrix (cbf.py 116, 130)
ReadMatrix(t) ==
    /\ ld_pc[t] = "read_matrix"
    /\ ld_seen' = [ld_seen EXCEPT ![t].tfidf_matrix = cbf_model.tfidf_matrix]
    /\ ld_pc' = [ld_pc EXCEPT ![t] = "read_indices"]
    /\ UNCHANGED <<ld_load, ld_order, ld_loads, cbf_model>>
    /\ UNCHANGED outsideLoad

\* get_similar reads self._movie_indices (cbf.py 116, 127)
ReadIndices(t) ==
    /\ ld_pc[t] = "read_indices"
    /\ ld_seen' = [ld_seen EXCEPT ![t].movie_indices = cbf_model.movie_indices]
    /\ ld_pc' = [ld_pc EXCEPT ![t] = "read_movies"]
    /\ UNCHANGED <<ld_load, ld_order, ld_loads, cbf_model>>
    /\ UNCHANGED outsideLoad

\* get_similar reads self._movies_data and returns (cbf.py 138-149)
ReadMovies(t) ==
    /\ ld_pc[t] = "read_movies"
    /\ ld_seen' = [ld_seen EXCEPT ![t].movies_data = cbf_model.movies_data]
    /\ ld_pc' = [ld_pc EXCEPT ![t] = "returned"]
    /\ UNCHANGED <<ld_load, ld_order, ld_loads, cbf_model>>
    /\ UNCHANGED outsideLoad

NextLoad ==
    \E t \in Threads :
        \/ GetSimilar(t)
        \/ CheckLoaded(t)
        \/ StartLoad(t)
        \/ AssignField(t)
        \/ SetLoaded(t)
        \/ ReadMatrix(t)
        \/ ReadIndices(t)
        \/ ReadMovies(t)


(***************************************************************************)
(* get_movie (backend/api/routes/metadata.py 90-187): the handler submits  *)
(* two tasks to the module's thread pool and waits for each result.        *)
(***************************************************************************)
MaxWorkers == 4         \* ThreadPoolExecutor(max_workers=4)

\* A future: absent (never submitted), queued, running or done.  value is
\* what the task returned; caught tells that the task got there by catching
\* an exception (neo4j_service.py 247-249, metadata.py 107-109).
NoFuture     == [state |-> "absent", value |-> <<>>, caught |-> FALSE]
Submitted    == [state |-> "queued", value |-> <<>>, caught |-> FALSE]
Done(v, c)   == [state |-> "done", value |-> v, caught |-> c]
Pending(f)   == f.state \in {"queued", "running"}

\* Workers busy with the two tasks of this request.
OwnRunning ==
    (IF movie_future.state = "running" THEN 1 ELSE 0)
    + (IF similar_future.state = "running" THEN 1 ELSE 0)

\* Lists find_similar_movies can return for the movie: at most `limit` rows
\* of other movies; 0 is a row without a movie_id.
RECURSIVE RowLists(_, _)
RowLists(ids, n) ==
    IF n = 0 THEN {<<>>}
    ELSE RowLists(ids, n - 1)
         \cup {Append(l, m) : l \in {x \in RowLists(ids, n - 1) : Len(x) = n - 1},
                              m \in ids}
SimilarRows(movie_id, limit) == RowLists({0} \cup (Movies \ {movie_id}), limit)

\* `for m in similar_movies_data if m.get("movie_id")` (metadata.py 146-160)
FormatSimilar(rows) == SelectSeq(rows, LAMBDA m : m # 0)

\* `return MovieDetail(...)` (metadata.py 162-182)
MovieDetail(movie, similar_movies_data) ==
    [status |-> 200, movie_id |-> movie,
     similar_movies |-> FormatSimilar(similar_movies_data)]

\* `raise HTTPException(status_code=...)` (metadata.py 135, 187)
ErrorResponse(status_code) ==
    [status |-> status_code, movie_id |-> 0, similar_movies |-> <<>>]

\* Variant: a similar-movies wait that does not give a result fails the
\* request.
AfterSimilarWaitRequired(movie, outcome, rows) ==
    IF outcome = "result" THEN MovieDetail(movie, rows) ELSE ErrorResponse(500)

\* metadata.py 138-143 and 162: similar_movies_data stays [] unless the
\* wait gives a result; the details are returned either way.
AfterSimilarWait(movie, outcome, rows) ==
    MovieDetail(movie, IF outcome = "result" THEN rows ELSE <<>>)

\* metadata.py 126-129: both tasks are submitted before any wait.
GetMovie ==
    /\ gm_pc = "idle"
    /\ \E movie_id \in Movies, include_similar \in BOOLEAN, similar_limit \in 1..MaxLimit :
         /\ gm_args' = [movie_id |-> movie_id, include_similar |-> include_similar,
                        similar_limit |-> similar_limit]
         /\ similar_future' = IF include_similar THEN Submitted ELSE NoFuture
    /\ movie_future' = Submitted
    /\ gm_pc' = "await_movie"
    /\ UNCHANGED <<other_tasks, gm_waits, response>>
    /\ UNCHANGED outsideGetMovie

\* Tasks of other requests take and free workers of the pool.
OtherTaskStarts ==
    /\ other_tasks + OwnRunning < MaxWorkers
    /\ other_tasks' = other_tasks + 1
    /\ UNCHANGED <<gm_pc, gm_args, movie_future, similar_future, gm_waits, response>>
    /\ UNCHANGED outsideGetMovie

OtherTaskEnds ==
    /\ other_tasks > 0
    /\ other_tasks' = other_tasks - 1
    /\ UNCHANGED <<gm_pc, gm_args, movie_future, similar_future, gm_waits, response>>
    /\ UNCHANGED outsideGetMovie

\* A free worker takes the oldest task of the queue: the details task
\* before the similar-movies task.
WorkerTakesTask ==
    /\ other_tasks + OwnRunning < MaxWorkers
    /\ \/ /\ movie_future.state = "queued"
          /\ movie_future' = [movie_future EXCEPT !.state = "running"]
          /\ UNCHANGED similar_future
       \/ /\ movie_future.state # "queued"
          /\ similar_future.state = "queued"
          /\ similar_future' = [similar_future EXCEPT !.state = "running"]
          /\ UNCHANGED movie_future
    /\ UNCHANGED <<gm_pc, gm_args, other_tasks, gm_waits, response>>
    /\ UNCHANGED outsideGetMovie

\* _fetch_movie_details returns: the movie, None when there is no record,
\* or None after get_movie_details caught an exception.
FetchMovieDetails ==
    /\ movie_future.state = "running"
    /\ \E outcome \in {Done(gm_args.movie_id, FALSE), Done(0, FALSE), Done(0, TRUE)} :
         movie_future' = outcome
    /\ UNCHANGED <<gm_pc, gm_args, similar_future, other_tasks, gm_waits, response>>
    /\ UNCHANGED outsideGetMovie

\* _fetch_similar_movies returns: the rows of find_similar_movies, or []
\* after catching its exception.
FetchSimilarMovies ==
    /\ similar_future.state = "running"
    /\ \/ \E rows \in SimilarRows(gm_args.movie_id, gm_args.similar_limit) :
            similar_future' = Done(rows, FALSE)
       \/ similar_future' = Done(<<>>, TRUE)
    /\ UNCHANGED <<gm_pc, gm_args, movie_future, other_tasks, gm_waits, response>>
    /\ UNCHANGED outsideGetMovie

\* `movie = movie_future.result(timeout=10)` gives the result; without a
\* movie the handler raises 404 (metadata.py 132-135).
MovieResult ==
    /\ gm_pc = "await_movie"
    /\ movie_future.state = "done"
    /\ gm_waits' = [gm_waits EXCEPT !.movie = "result"]
    /\ IF movie_future.value # 0
       THEN gm_pc' = "await_similar" /\ UNCHANGED response
       ELSE gm_pc' = "responded" /\ response' = ErrorResponse(404)
    /\ UNCHANGED <<gm_args, movie_future, similar_future, other_tasks>>
    /\ UNCHANGED outsideGetMovie

\* The wait for the details ends after 10 seconds with TimeoutError, which
\* `except Exception` turns into a 500 (metadata.py 185-187).
MovieTimeout ==
    /\ gm_pc = "await_movie"
    /\ Pending(movie_future)
    /\ gm_waits' = [gm_waits EXCEPT !.movie = "timeout"]
    /\ gm_pc' = "responded"
    /\ response' = ErrorResponse(500)
    /\ UNCHANGED <<gm_args, movie_future, similar_future, other_tasks>>
    /\ UNCHANGED outsideGetMovie

\* `if similar_future: similar_movies_data = similar_future.result(timeout=10)`
\* gives the result, or there is no future to wait for (metadata.py 138-182).
SimilarResult ==
    /\ gm_pc = "await_similar"
    /\ ~Pending(similar_future)
    /\ gm_waits' = [gm_waits EXCEPT !.similar = IF similar_future.state = "done"
                                                THEN "result" ELSE "absent"]
    /\ response' = AfterSimilarWait(movie_future.value, "result", similar_future.value)
    /\ gm_pc' = "responded"
    /\ UNCHANGED <<gm_args, movie_future, similar_future, other_tasks>>
    /\ UNCHANGED outsideGetMovie

\* The wait for the similar movies ends after 10 seconds with TimeoutError,
\* caught at metadata.py 142.
SimilarTimeout ==
    /\ gm_pc = "await_similar"
    /\ Pending(similar_future)
    /\ gm_waits' = [gm_waits EXCEPT !.similar = "timeout"]
    /\ response' = AfterSimilarWait(movie_future.value, "timeout", <<>>)
    /\ gm_pc' = "responded"
    /\ UNCHANGED <<gm_args, movie_future, similar_future, other_tasks>>
    /\ UNCHANGED outsideGetMovie

NextGetMovie ==
    \/ GetMovie
    \/ OtherTaskStarts
    \/ OtherTaskEnds
    \/ WorkerTakesTask
    \/ FetchMovieDetails
    \/ FetchSimilarMovies
    \/ MovieResult
    \/ MovieTimeout
    \/ SimilarResult
    \/ SimilarTimeout

(***************************************************************************)
(* ModelService.get_similar_movies over ContentBasedFilter.get_similar     *)
(***************************************************************************)
\* Movies a TF-IDF index may hold: those of the database and one more.
IndexableMovies == 1..(NumMovies + 1)

\* model_service.py 204-230: the most popular movies with score 0.5, or
\* nothing when the database fails.
FallbackRecommendations(n) ==
    {<<>>,
     [i \in 1..Min(n, NumMovies) |-> ScoredRow(ByPopularity(Movies)[i], 500)]}

\* A caller invokes get_similar_movies(movie_id, n_recommendations) on some
\* state of the index.
GetSimilarMovies ==
    /\ ms_pc = "idle"
    /\ \E mid \in IndexableMovies, n \in 1..MaxN, index \in SUBSET IndexableMovies :
          /\ ms_args' = [movie_id |-> mid, n_recommendations |-> n]
          /\ ms_index' = index
    /\ ms_pc' = "get_similar"
    /\ UNCHANGED <<ms_recs, ms_result>>
    /\ UNCHANGED outsideSimilarMovies

\* model_service.py 149: ContentBasedFilter() or the model load raises.
CbfRaises ==
    /\ ms_pc = "get_similar"
    /\ ms_recs' = [kind |-> "raise", rows |-> <<>>]
    /\ ms_pc' = "format"
    /\ UNCHANGED <<ms_args, ms_index, ms_result>>
    /\ UNCHANGED outsideSimilarMovies

\* cbf.py 128-149: the movie is in the index.
CbfFromIndex ==
    /\ ms_pc = "get_similar"
    /\ ms_index # {}
    /\ ms_args.movie_id \in ms_index
    /\ \E rows \in IndexedSimilar(ms_index, ms_args.movie_id, ms_args.n_recommendations) :
          ms_recs' = [kind |-> "scored", rows |-> rows]
    /\ ms_pc' = "format"
    /\ UNCHANGED <<ms_args, ms_index, ms_result>>
    /\ UNCHANGED outsideSimilarMovies

\* cbf.py 122-130: no matrix, or the movie is not in the index.
CbfFromDatabase ==
    /\ ms_pc = "get_similar"
    /\ ms_index = {} \/ ms_args.movie_id \notin ms_index
    /\ \E rows \in DatabaseSimilar(ms_args.movie_id, ms_args.n_recommendations) :
          ms_recs' = [kind |-> "db_fallback", rows |-> rows]
    /\ ms_pc' = "format"
    /\ UNCHANGED <<ms_args, ms_index, ms_result>>
    /\ UNCHANGED outsideSimilarMovies

\* model_service.py 155-167: every row is copied; rec["score"] of a row
\* without a score raises KeyError.
FormatSimilarMovies ==
    /\ ms_pc = "format"
    /\ ms_recs.kind # "raise"
    /\ \A i \in 1..Len(ms_recs.rows) : ms_recs.rows[i].has_score
    /\ ms_result' = ms_recs.rows
    /\ ms_pc' = "returned"
    /\ UNCHANGED <<ms_args, ms_index, ms_recs>>
    /\ UNCHANGED outsideSimilarMovies

\* model_service.py 168-170: `except Exception` answers with the fallback
\* recommendations.
SimilarMoviesFallback ==
    /\ ms_pc = "format"
    /\ \/ ms_recs.kind = "raise"
       \/ \E i \in 1..Len(ms_recs.rows) : ~ms_recs.rows[i].has_score
    /\ \E rows \in FallbackRecommendations(ms_args.n_recommendations) :
          ms_result' = rows
    /\ ms_pc' = "returned"
    /\ UNCHANGED <<ms_args, ms_index, ms_recs>>
    /\ UNCHANGED outsideSimilarMovies

NextSimilarMovies ==
    \/ GetSimilarMovies
    \/ CbfRaises
    \/ CbfFromIndex
    \/ CbfFromDatabase
    \/ FormatSimilarMovies
    \/ SimilarMoviesFallback

(***************************************************************************)
(* CollaborativeFilter.get_recommendations_for_user                        *)
(***************************************************************************)
KnownUsers == {7}       \* keys of _user_to_idx
CfUsers    == {7, 8}    \* user ids the callers pass

NegInf == -1            \* -np.inf: below every predicted rating

\* cf.py 153-156: the user's predictions, the rated movies masked.
Predictions(rated, exclude_rated) ==
    [m \in Movies |-> IF exclude_rated /\ m \in rated THEN NegInf
                      ELSE PredictedRating(m)]

\* cf.py 159-165: predictions.argsort()[::-1][:n] as (movie_id, rating)
\* pairs; equal predictions come in either order.
TopPredictions(predictions, n) ==
    {[i \in 1..Min(n, Len(t)) |-> [movie_id |-> t[i], score |-> predictions[t[i]]]] :
        t \in Rankings(predictions, Movies)}

\* A caller invokes get_recommendations_for_user(user_id, n, exclude_rated);
\* cf_rated is the user's row of the user-item matrix.
GetRecommendationsForUser ==
    /\ cf_pc = "idle"
    /\ \E u \in CfUsers, n \in 1..MaxN, e \in BOOLEAN, rated \in SUBSET Movies :
          /\ cf_args' = [user_id |-> u, n_recommendations |-> n, exclude_rated |-> e]
          /\ cf_rated' = rated
    /\ cf_pc' = "called"
    /\ UNCHANGED cf_result
    /\ UNCHANGED outsideCf

\* cf.py 148-149: the user is unknown to the model.
CfUnknownUser ==
    /\ cf_pc = "called"
    /\ cf_args.user_id \notin KnownUsers
    /\ cf_result' = <<>>
    /\ cf_pc' = "returned"
    /\ UNCHANGED <<cf_args, cf_rated>>
    /\ UNCHANGED outsideCf

\* cf.py 151-165: mask, sort, cut and return.
CfTopPredictions ==
    /\ cf_pc = "called"
    /\ cf_args.user_id \in KnownUsers
    /\ \E top \in TopPredictions(Predictions(cf_rated, cf_args.exclude_rated),
                                 cf_args.n_recommendations) :
          cf_result' = top
    /\ cf_pc' = "returned"
    /\ UNCHANGED <<cf_args, cf_rated>>
    /\ UNCHANGED outsideCf

NextCf ==
    \/ GetRecommendationsForUser
    \/ CfUnknownUser
    \/ CfTopPredictions

(***************************************************************************)
(* GeminiQueryService.parse_query                                          *)
(***************************************************************************)
\* ParsedQuery: query_type, is_supported and extracted_entities ("" and {}
\* for an entity that is absent).
NoExtracted == [director |-> "", actor |-> "", genres |-> {}]
ParsedQuery(query_type, is_supported, entities) ==
    [query_type |-> query_type, is_supported |-> is_supported, entities |-> entities]
NoParsedQuery == ParsedQuery("", FALSE, NoExtracted)

UserQueries == {"nolan comedy", "hidden gem", "drama", "with tom hanks"}

\* gemini_query_service.py 437-449, 459-476: the known directors and the
\* known actors named by the queries.
RuleDirector(query_lower) == IF Contains(query_lower, "nolan") THEN "Christopher Nolan" ELSE ""
RuleActor(query_lower) == IF Contains(query_lower, "tom hanks") THEN "Tom Hanks" ELSE ""

\* gemini_query_service.py 479-495: the genre keywords found.
RuleGenres(query_lower) ==
    {g \in {"Comedy", "Drama"} :
        Contains(query_lower, IF g = "Comedy" THEN "comedy" ELSE "drama")}

\* gemini_query_service.py 429-495: the query type after the director, the
\* actor and the genres were looked for.
RuleQueryType(director, actor, found_genres) ==
    IF found_genres # {} /\ director = "" /\ actor = "" THEN "genre"
    ELSE IF actor # "" THEN "actor"
    ELSE IF director # "" THEN "director"
    ELSE "combined"

\* GeminiQueryService._parse_with_rules on a lower-case query without
\* typos, decade, year or "movies like".
ParseWithRules(user_query) ==
    IF Contains(user_query, "hidden gem")
    THEN ParsedQuery("unsupported", FALSE, NoExtracted)
    ELSE ParsedQuery(RuleQueryType(RuleDirector(user_query), RuleActor(user_query),
                                   RuleGenres(user_query)),
                     TRUE,
                     [director |-> RuleDirector(user_query),
                      actor |-> RuleActor(user_query),
                      genres |-> RuleGenres(user_query)])

\* What self._model.generate_content(prompt) gives: an exception, text that
\* is no JSON, JSON that is no object, or an object with is_supported,
\* query_type and entities (null or an object naming a director).
NoReply == [kind |-> "none", is_supported |-> FALSE, query_type |-> "", entities |-> ""]
GeminiReplies ==
    {[kind |-> k, is_supported |-> FALSE, query_type |-> "", entities |-> ""] :
        k \in {"raise", "text", "json_list"}}
    \cup [kind : {"json"}, is_supported : BOOLEAN,
          query_type : {"director", "bogus"}, entities : {"null", "object"}]

ReplyEntities(reply) ==
    IF reply.entities = "object"
    THEN [director |-> "Denis Villeneuve", actor |-> "", genres |-> {}]
    ELSE NoExtracted

\* Variant: entities of null are read as an empty object.
RaisedUnlessNull(reply) ==
    CASE reply.kind = "raise" -> "Exception"
      [] reply.kind = "text" -> "JSONDecodeError"
      [] reply.kind = "json_list" -> "AttributeError"
      [] reply.kind = "json" /\ reply.query_type = "bogus" -> "ValueError"
      [] OTHER -> ""

\* gemini_query_service.py 205-242: the exception raised on the way from
\* the prompt to the ParsedQuery, "" when there is none: generate_content
\* raises, json.loads fails, data.get on a list, QueryType(...) of an
\* unknown value, entities.get on None in _generate_cypher.
Raised(reply) ==
    CASE reply.kind = "raise" -> "Exception"
      [] reply.kind = "text" -> "JSONDecodeError"
      [] reply.kind = "json_list" -> "AttributeError"
      [] reply.kind = "json" /\ reply.query_type = "bogus" -> "ValueError"
      [] reply.kind = "json" /\ reply.is_supported /\ reply.entities = "null"
            -> "AttributeError"
      [] OTHER -> ""

\* `except json.JSONDecodeError` and `except Exception` of
\* _parse_with_gemini (244, 247), `except Exception` of parse_query (194);
\* every class raised here derives from Exception.
ParseWithGeminiExcepts == {"JSONDecodeError", "Exception"}
ParseQueryExcepts == {"Exception"}
CaughtBy(clauses, exc) == exc \in clauses \/ "Exception" \in clauses

\* gemini_query_service.py 218-242: the ParsedQuery built from the reply.
BuildParsedQuery(reply) ==
    IF ~reply.is_supported
    THEN ParsedQuery("unsupported", FALSE, ReplyEntities(reply))
    ELSE ParsedQuery(reply.query_type, TRUE, ReplyEntities(reply))

\* parse_query 189-195 over _parse_with_gemini: "parsed" with the
\* ParsedQuery, "none" when an exception was caught on the way, "raise"
\* when it was not.
ParseWithGemini(reply, exc) ==
    IF exc = "" THEN [kind |-> "parsed", value |-> BuildParsedQuery(reply)]
    ELSE IF CaughtBy(ParseWithGeminiExcepts, exc) \/ CaughtBy(ParseQueryExcepts, exc)
    THEN [kind |-> "none", value |-> NoParsedQuery]
    ELSE [kind |-> "raise", value |-> NoParsedQuery]

\* GeminiQueryService(): the environment the instance lives in.
NewService ==
    /\ gq_pc = "none"
    /\ \E library \in BOOLEAN, api_key \in BOOLEAN :
          gq_env' = [library |-> library, api_key |-> api_key]
    /\ gq_initialized' = FALSE
    /\ gq_model' = FALSE
    /\ gq_pc' = "idle"
    /\ UNCHANGED <<gq_inits, gq_calls, gq_query, gq_reply, gq_result>>
    /\ UNCHANGED outsideGemini

\* parse_query(user_query) up to `if self._model`: _initialize() creates
\* the model when the library and the key are there and the constructor of
\* the model does not raise, and sets _initialized in every case.
ParseQuery ==
    /\ gq_pc = "idle"
    /\ gq_calls < MaxCalls
    /\ gq_calls' = gq_calls + 1
    /\ \E q \in UserQueries : gq_query' = q
    /\ gq_reply' = NoReply
    /\ IF gq_initialized
       THEN UNCHANGED <<gq_initialized, gq_model, gq_inits>>
       ELSE /\ gq_inits' = gq_inits + 1
            /\ gq_initialized' = TRUE
            /\ IF gq_env.library /\ gq_env.api_key
               THEN \E created \in BOOLEAN : gq_model' = created
               ELSE gq_model' = FALSE
    /\ gq_pc' = IF gq_model' THEN "gemini" ELSE "rules"
    /\ UNCHANGED <<gq_env, gq_result>>
    /\ UNCHANGED outsideGemini

\* gemini_query_service.py 189-195: the Gemini attempt.
TryGemini ==
    /\ gq_pc = "gemini"
    /\ \E reply \in GeminiReplies :
          /\ gq_reply' = reply
          /\ \E parsed \in {ParseWithGemini(reply, Raised(reply))} :
                IF parsed.kind = "parsed"
                THEN gq_result' = parsed.value /\ gq_pc' = "returned"
                ELSE /\ UNCHANGED gq_result
                     /\ gq_pc' = IF parsed.kind = "none" THEN "rules" ELSE "raised"
    /\ UNCHANGED <<gq_env, gq_initialized, gq_model, gq_inits, gq_calls, gq_query>>
    /\ UNCHANGED outsideGemini

\* gemini_query_service.py 197-198: return self._parse_with_rules(user_query)
FallBackToRules ==
    /\ gq_pc = "rules"
    /\ gq_result' = ParseWithRules(gq_query)
    /\ gq_pc' = "returned"
    /\ UNCHANGED <<gq_env, gq_initialized, gq_model, gq_inits, gq_calls, gq_query,
                   gq_reply>>
    /\ UNCHANGED outsideGemini

\* The caller has the result; the instance is ready for the next call.
NextQuery ==
    /\ gq_pc = "returned"
    /\ gq_pc' = "idle"
    /\ UNCHANGED <<gq_env, gq_initialized, gq_model, gq_inits, gq_calls, gq_query,
                   gq_reply, gq_result>>
    /\ UNCHANGED outsideGemini

NextGemini ==
    \/ NewService
    \/ ParseQuery
    \/ TryGemini
    \/ FallBackToRules
    \/ NextQuery

\* No call is in progress: the recommender and the graph service are idle.
Init ==
    /\ pc = "idle"
    /\ user_id = 0
    /\ movie_ids = <<>>
    /\ genres = <<>>
    /\ text_query = ""
    /\ n_recommendations = 1
    /\ cbf_recs = <<>>
    /\ all_recommendations = <<>>
    /\ recommendations = <<>>
    /\ calls = <<>>
    /\ sim_pc = "idle"
    /\ sim_movie_id = 0
    /\ sim_movie_title = <<>>
    /\ sim_limit = 1
    /\ sim_weights = [genre |-> 5, actor |-> 3, director |-> 2, era |-> 1]
    /\ source_record = 0
    /\ movies = <<>>
    /\ similarity_details = EmptyDetails
    /\ first_result = <<>>
    /\ mo_pc = "idle"
    /\ mo_input = [cbf |-> <<>>, cf |-> <<>>, known |-> {}, semantic |-> <<>>,
                   genres |-> <<>>, n |-> 1]
    /\ mo_order = <<>>
    /\ mo_map = <<>>
    /\ mo_result = <<>>
    /\ cl_pc = "idle"
    /\ cl_query = ""
    /\ intent = NewIntent("")
    /\ ld_pc = [t \in Threads |-> "idle"]
    /\ ld_load = [t \in Threads |-> 0]
    /\ ld_order = [t \in Threads |-> <<"", <<>> >>]
    /\ ld_loads = 0
    /\ cbf_model = NewModel
    /\ ld_seen = [t \in Threads |-> NothingSeen]
    /\ gm_pc = "idle"
    /\ gm_args = [movie_id |-> 1, include_similar |-> TRUE, similar_limit |-> 1]
    /\ movie_future = NoFuture
    /\ similar_future = NoFuture
    /\ other_tasks = 0
    /\ gm_waits = [movie |-> "", similar |-> ""]
    /\ response = <<>>
    /\ ms_pc = "idle"
    /\ ms_args = [movie_id |-> 1, n_recommendations |-> 1]
    /\ ms_index = {}
    /\ ms_recs = [kind |-> "none", rows |-> <<>>]
    /\ ms_result = <<>>
    /\ cf_pc = "idle"
    /\ cf_args = [user_id |-> 7, n_recommendations |-> 1, exclude_rated |-> TRUE]
    /\ cf_rated = {}
    /\ cf_result = <<>>
    /\ gq_pc = "none"
    /\ gq_env = [library |-> FALSE, api_key |-> FALSE]
    /\ gq_initialized = FALSE
    /\ gq_model = FALSE
    /\ gq_inits = 0
    /\ gq_calls = 0
    /\ gq_query = ""
    /\ gq_reply = NoReply
    /\ gq_result = NoParsedQuery

SpecHybrid == Init
              /\ [][NextHybrid]_vars

SpecSimilar == Init
               /\ [][NextSimilar]_vars

SpecMergeOrder == Init
                  /\ [][NextMergeOrder]_vars

SpecClassify == Init
                /\ [][NextClassify]_vars

SpecLoad == Init
            /\ [][NextLoad]_vars

SpecGetMovie == Init
                /\ [][NextGetMovie]_vars

SpecSimilarMovies == Init
                     /\ [][NextSimilarMovies]_vars

SpecCf == Init
          /\ [][NextCf]_vars

SpecGemini == Init
              /\ [][NextGemini]_vars

(***************************************************************************)
(* Properties of HybridRecommender.recommend                               *)
(***************************************************************************)
ItemOf(mid) == CHOOSE i \in 1..Len(all_recommendations) :
                  all_recommendations[i].movie_id = mid
ReturnedIds == {recommendations[i].movie_id : i \in 1..Len(recommendations)}

\* C1: recommend never raises to its caller, whatever its collaborators do
\* (scored rows, empty results, exceptions, or the rows of the CBF database
\* fallback).
C1_NeverRaises == pc # "raised"

\* C2: no movie of the input movie_ids is in the returned list.
C2_LikedNeverReturned ==
    pc = "returned" =>
        \A i \in 1..Len(recommendations) :
            recommendations[i].movie_id \notin ToSet(movie_ids)

\* A liked movie is a candidate that outscores everything that is returned.
C2_Witness ==
    /\ pc = "returned"
    /\ recommendations # <<>>
    /\ \E i \in 1..Len(all_recommendations) :
        /\ all_recommendations[i].movie_id \in ToSet(movie_ids)
        /\ FinalScore(all_recommendations[i], genres) > recommendations[1].score

\* C3: the candidate dict never holds two items for one movie_id, and the
\* returned list never names a movie twice.
C3_OneEntryPerMovie ==
    /\ \A i, j \in 1..Len(all_recommendations) :
          i # j => all_recommendations[i].movie_id # all_recommendations[j].movie_id
    /\ \A i, j \in 1..Len(recommendations) :
          i # j => recommendations[i].movie_id # recommendations[j].movie_id

\* A returned movie was named by CBF, by CF and by the semantic search.
C3_Witness ==
    /\ pc = "returned"
    /\ \E i \in 1..Len(all_recommendations) :
        /\ all_recommendations[i].movie_id \in ReturnedIds
        /\ all_recommendations[i].cbf > 0
        /\ all_recommendations[i].cf > 0
        /\ all_recommendations[i].semantic > 0

AllStrategyCallsRaised ==
    \A i \in 1..Len(calls) :
        calls[i].adapter # "search_movies" => calls[i].kind = "raise"
GenreFallbackGaveNothing ==
    \A i \in 1..Len(calls) :
        calls[i].adapter = "search_movies" => calls[i].rows = 0

\* C4: when every CBF, CF and semantic call raises and the genre fallback
\* gives no movie (or is not consulted), recommend returns [] and does not
\* raise.
C4_AllFailedGivesEmpty ==
    (AllStrategyCallsRaised /\ GenreFallbackGaveNothing) =>
        /\ pc # "raised"
        /\ pc = "returned" => recommendations = <<>>

\* Every kind of strategy call was made and raised, the fallback was
\* consulted and gave nothing.
C4_Witness ==
    /\ pc = "returned"
    /\ AllStrategyCallsRaised
    /\ GenreFallbackGaveNothing
    /\ \A a \in {"get_similar", "get_recommendations_for_text",
                 "get_recommendations_for_user", "vector_search", "search_movies"} :
          \E i \in 1..Len(calls) : calls[i].adapter = a

\* Number of distinct preferred genres among a candidate's genres.
PreferredFound(item) ==
    Cardinality({g \in ToSet(genres) : \E k \in 1..Len(item.genres) : item.genres[k] = g})

\* C5: a returned score is 0.4*cbf + 0.3*cf + 0.3*semantic, times
\* (1 + 0.1*k) for k preferred genres found among the candidate's genres;
\* cbf = 0.8 alone with no genre overlap gives 0.32.
C5_ScoreFormula ==
    pc = "returned" =>
        \A i \in 1..Len(recommendations) :
            LET item == all_recommendations[ItemOf(recommendations[i].movie_id)]
                k    == PreferredFound(item)
            IN /\ recommendations[i].score
                    = (400 * item.cbf + 300 * item.cf + 300 * item.semantic) * (10 + k)
               /\ (item.cbf = 800 /\ item.cf = 0 /\ item.semantic = 0 /\ k = 0)
                    => recommendations[i].score = 3200000

\* The list holds the 0.32 example (preferred genres given, none found) and
\* a candidate whose score was boosted.
C5_Witness ==
    /\ pc = "returned"
    /\ genres # <<>>
    /\ \E i \in 1..Len(recommendations) :
        LET item == all_recommendations[ItemOf(recommendations[i].movie_id)]
        IN /\ item.cbf = 800 /\ item.cf = 0 /\ item.semantic = 0
           /\ PreferredFound(item) = 0
           /\ recommendations[i].score = 3200000
    /\ \E i \in 1..Len(recommendations) :
        LET item == all_recommendations[ItemOf(recommendations[i].movie_id)]
        IN /\ PreferredFound(item) >= 1
           /\ recommendations[i].score > 0

\* C6: at most n entries, in non-increasing score order, and no candidate
\* left out (other than a liked movie) scores above a returned one.
C6_TopNSorted ==
    pc = "returned" =>
        /\ Len(recommendations) <= n_recommendations
        /\ \A i, j \in 1..Len(recommendations) :
              i < j => recommendations[i].score >= recommendations[j].score
        /\ \A i \in 1..Len(all_recommendations) :
              LET item == all_recommendations[i]
              IN (item.movie_id \notin ToSet(movie_ids) /\ item.movie_id \notin ReturnedIds)
                 => /\ recommendations # <<>>
                    /\ \A j \in 1..Len(recommendations) :
                          FinalScore(item, genres) <= recommendations[j].score

\* Two returned entries, the better one later in dict order, and a third
\* candidate that scored lower and was cut.
C6_Witness ==
    /\ pc = "returned"
    /\ Len(recommendations) = 2
    /\ recommendations[1].score > recommendations[2].score
    /\ ItemOf(recommendations[1].movie_id) > ItemOf(recommendations[2].movie_id)
    /\ \E i \in 1..Len(all_recommendations) :
        /\ all_recommendations[i].movie_id \notin ReturnedIds
        /\ all_recommendations[i].movie_id \notin ToSet(movie_ids)
        /\ FinalScore(all_recommendations[i], genres) < recommendations[1].score

\* Sum of the scores the CBF calls returned for movie mid.
RECURSIVE SumScores(_, _)
SumScores(rows, mid) ==
    IF rows = <<>> THEN 0
    ELSE (IF Head(rows).movie_id = mid THEN Head(rows).score ELSE 0)
         + SumScores(Tail(rows), mid)

CbfMerged == pc \in {"cf", "semantic", "genre_fallback", "final", "returned"}

\* C14: a movie returned by more than one CBF call has, as its cbf score,
\* the sum of the scores returned for it; a later score does not replace an
\* earlier one.
C14_ScoresSummed ==
    CbfMerged =>
        \A k \in 1..Len(cbf_recs) :
            all_recommendations[ItemOf(cbf_recs[k].movie_id)].cbf
                = SumScores(cbf_recs, cbf_recs[k].movie_id)

\* The last call of the semantic adapter found the vector index failing.
VectorIndexFailed ==
    /\ calls # <<>>
    /\ calls[Len(calls)].adapter = "vector_search"
    /\ calls[Len(calls)].kind = "index_error"

\* C15: when the vector index query raises, the semantic strategy adds no
\* candidate and gives no candidate a semantic score above 0.
C15_IndexFailureContributesNothing ==
    (pc = "genre_fallback" /\ VectorIndexFailed) =>
        \A i \in 1..Len(all_recommendations) : all_recommendations[i].semantic = 0

\* The (movie_id, score) pairs of a returned list.
ScorePairs(list) == {<<list[i].movie_id, list[i].score>> : i \in 1..Len(list)}

\* C16: for fixed CBF, CF and semantic results and fixed movie-details
\* lookups, the (movie_id, score) pairs returned after merging the three
\* strategies in any order are those returned after merging them in the
\* order CBF, CF, semantic.
C16_MergeOrderIndependent ==
    mo_pc = "returned" =>
        ScorePairs(mo_result)
            = ScorePairs(ReturnedList(MergeInOrder(<<>>, CodeOrder, mo_input), mo_input))

(***************************************************************************)
(* Properties of GraphQueryService.find_similar_movies                     *)
(***************************************************************************)
NoSourceArgument == sim_movie_id = 0 /\ sim_movie_title = <<>>

UnknownSource ==
    \/ sim_movie_id = 99
    \/ sim_movie_id = 0 /\ sim_movie_title = <<"z">>

\* C8: when the id or title resolves to no movie, find_similar_movies
\* returns an empty list with an empty details dict and raises nothing.
C8_SourceNotFoundGivesEmpty ==
    /\ sim_pc # "raised"
    /\ (sim_pc \notin {"idle", "source_query"} /\ UnknownSource) =>
        /\ sim_pc = "returned"
        /\ movies = <<>>
        /\ similarity_details = EmptyDetails

\* An unknown id was looked up, together with a title that would match.
C8_Witness ==
    /\ sim_pc = "returned"
    /\ sim_movie_id = 99
    /\ sim_movie_title = <<"h", "e", "a", "t">>

\* Shared names counted from the graph content.
CountShared(a, b) == Cardinality({x \in a : x \in b})
EraBit(src, c) ==
    IF /\ ReleaseYear(src) # NoYear
       /\ ReleaseYear(c) # NoYear
       /\ ReleaseYear(src) - ReleaseYear(c) <= 10
       /\ ReleaseYear(c) - ReleaseYear(src) <= 10
    THEN 1 ELSE 0

\* C9: a returned candidate's score is shared genres x genre weight + shared
\* actors x actor weight + shared directors x director weight + same era x
\* era weight, same era meaning both years known and at most 10 apart; only
\* scores > 0 are returned; 2 genres, 0 actors, 1 director and the same era
\* under weights 5/3/2/1 score 13.
C9_WeightedScore ==
    \A i \in 1..Len(movies) :
        LET c == movies[i].movie_id
            g == CountShared(ToSet(MovieGenres(source_record)), ToSet(MovieGenres(c)))
            a == CountShared(MovieActors(source_record), MovieActors(c))
            d == CountShared(MovieDirectors(source_record), MovieDirectors(c))
            e == EraBit(source_record, c)
        IN /\ movies[i].similarity_score
                = g * sim_weights.genre + a * sim_weights.actor
                  + d * sim_weights.director + e * sim_weights.era
           /\ movies[i].similarity_score > 0
           /\ (/\ g = 2 /\ a = 0 /\ d = 1 /\ e = 1
               /\ sim_weights = [genre |-> 5, actor |-> 3, director |-> 2, era |-> 1])
                => movies[i].similarity_score = 13

\* The worked example is returned: movie 2 against source 1.
C9_Witness ==
    /\ sim_pc = "returned"
    /\ source_record = 1
    /\ sim_weights = [genre |-> 5, actor |-> 3, director |-> 2, era |-> 1]
    /\ \E i \in 1..Len(movies) :
        /\ movies[i].movie_id = 2
        /\ movies[i].genre_matches = 2
        /\ movies[i].actor_matches = 0
        /\ movies[i].director_matches = 1
        /\ movies[i].era_match = 1
        /\ movies[i].similarity_score = 13

\* Both calls ran their two queries without a database error.
BothCallsAnswered ==
    /\ sim_pc = "returned"
    /\ first_result # <<>>
    /\ ~similarity_details.empty
    /\ ~first_result[1].similarity_details.empty

\* C11: a second call with the same arguments on the same graph returns the
\* same candidates in the same order as the first, also when candidates tie
\* on score and vote_average and when several movies match the title.
C11_Deterministic ==
    BothCallsAnswered => movies = first_result[1].movies

\* C10: the source movie is never in the list find_similar_movies returns,
\* whether it was given by id or resolved from a title.
C10_SourceExcluded ==
    \A i \in 1..Len(movies) : movies[i].movie_id # source_record

\* A source resolved from a title, with candidates returned.
C10_Witness ==
    /\ sim_pc = "returned"
    /\ sim_movie_id = 0
    /\ source_record # 0
    /\ Len(movies) = 2

(***************************************************************************)
(* Properties of IntentClassifier.classify                                 *)
(***************************************************************************)
NoEntities == [director |-> "", actor |-> "", genres |-> <<>>]
NoFilters  == [year |-> 0, decade |-> <<>>]

\* C12: a query matching a "movies like X" / "similar to X" template with a
\* cleaned title of 2 or more characters is classified [SIMILAR] with
\* confidence 0.95 and similar_to_movie = the cleaned title, and no entity
\* or filter is extracted, whatever else the query names; the title of
\* "movies like Inception" is "Inception".
C12_SimilarShortCircuit ==
    cl_pc = "classified" =>
        /\ ExtractSimilarMovie(cl_query) # "" =>
              /\ intent.search_types = <<"similar">>
              /\ intent.confidence = 95
              /\ intent.similar_to_movie = ExtractSimilarMovie(cl_query)
              /\ Len(intent.similar_to_movie) >= 2
              /\ intent.entities = NoEntities
              /\ intent.filters = NoFilters
        /\ cl_query = "movies like Inception" => intent.similar_to_movie = "Inception"

\* A similarity query that also names a known director.
C12_Witness ==
    /\ cl_pc = "classified"
    /\ intent.search_types = <<"similar">>
    /\ ExtractDirector(cl_query) = "Christopher Nolan"
    /\ intent.entities = NoEntities

\* What the returned intent holds as structured information.
Structured ==
    \/ intent.entities.director # ""
    \/ intent.entities.actor # ""
    \/ intent.entities.genres # <<>>
    \/ intent.filters.year # 0
Descriptive ==
    \E k \in 1..Len(DESCRIPTIVE_KEYWORDS) :
        Contains(StrLower(cl_query), DESCRIPTIVE_KEYWORDS[k])

\* C13: a query that is not a similarity query is classified by the table
\* (structured, descriptive): both give [HYBRID] 0.9; structured only
\* [GRAPH] 0.95; descriptive only [CBF] 0.8; neither [HYBRID] 0.5; in the
\* last two semantic_query is the original text.  One search type is
\* returned and the confidence lies in [0, 1].
C13_DecisionTable ==
    cl_pc = "classified" =>
        /\ Len(intent.search_types) = 1
        /\ intent.confidence \in 0..100
        /\ intent.search_types # <<"similar">> =>
              /\ (Structured /\ Descriptive) =>
                    intent.search_types = <<"hybrid">> /\ intent.confidence = 90
              /\ (Structured /\ ~Descriptive) =>
                    intent.search_types = <<"graph">> /\ intent.confidence = 95
              /\ (~Structured /\ Descriptive) =>
                    /\ intent.search_types = <<"cbf">> /\ intent.confidence = 80
                    /\ intent.semantic_query = cl_query
              /\ (~Structured /\ ~Descriptive) =>
                    /\ intent.search_types = <<"hybrid">> /\ intent.confidence = 50
                    /\ intent.semantic_query = cl_query

\* A query with a director and a descriptive keyword, classified [HYBRID].
C13_Witness ==
    /\ cl_pc = "classified"
    /\ intent.search_types = <<"hybrid">>
    /\ intent.confidence = 90
    /\ intent.entities.director # ""
    /\ Descriptive

(***************************************************************************)
(* More properties of GraphQueryService.find_similar_movies                *)
(***************************************************************************)
\* C19: a source resolved from a title that several movies match is the
\* matching movie with the highest popularity.
C19_TitleUsesMostPopular ==
    (sim_movie_id = 0 /\ source_record # 0) =>
        \A m \in GraphMovies :
            TitleMatches(sim_movie_title, m) => Popularity(source_record) >= Popularity(m)

\* Two returned candidates, the first with more shared genres than the
\* second and the same shared actors, shared directors and era bit.
MoreGenresOnly(i, j) ==
    LET a == movies[i].movie_id
        b == movies[j].movie_id
    IN /\ CountShared(ToSet(MovieGenres(source_record)), ToSet(MovieGenres(a)))
            > CountShared(ToSet(MovieGenres(source_record)), ToSet(MovieGenres(b)))
       /\ CountShared(MovieActors(source_record), MovieActors(a))
            = CountShared(MovieActors(source_record), MovieActors(b))
       /\ CountShared(MovieDirectors(source_record), MovieDirectors(a))
            = CountShared(MovieDirectors(source_record), MovieDirectors(b))
       /\ EraBit(source_record, a) = EraBit(source_record, b)

\* C20: for any non-negative weights, the candidate with more shared genres
\* and otherwise equal counts has the strictly greater similarity score.
C20_StrictlyMonotoneInGenres ==
    \A i, j \in 1..Len(movies) :
        MoreGenresOnly(i, j) => movies[i].similarity_score > movies[j].similarity_score

\* C20 as the code has it: the score is strictly greater when the genre
\* weight is positive, and never smaller; under a genre weight of 0 the two
\* scores are equal.
C20_MonotoneInGenres ==
    \A i, j \in 1..Len(movies) :
        MoreGenresOnly(i, j) =>
            /\ movies[i].similarity_score >= movies[j].similarity_score
            /\ sim_weights.genre > 0 =>
                    movies[i].similarity_score > movies[j].similarity_score
            /\ sim_weights.genre = 0 =>
                    movies[i].similarity_score = movies[j].similarity_score

\* Such a pair is returned under a positive genre weight.
C20_Witness ==
    /\ sim_pc = "returned"
    /\ sim_weights.genre > 0
    /\ \E i, j \in 1..Len(movies) : MoreGenresOnly(i, j)

\* The model fields a thread read all come from the load numbered k.
SeenFromLoad(seen, k) ==
    /\ seen.tfidf_matrix = k
    /\ seen.movie_indices = {k}
    /\ seen.movies_data = k

\* At most one load of the model has been started.
SingleFlight == ld_loads <= 1

\* Every thread that returned read fields of one and the same load.
OneLoadSeen ==
    \A t \in Threads :
        ld_pc[t] = "returned" => \E k \in 1..NumThreads : SeenFromLoad(ld_seen[t], k)

\* C17: when two threads make the first call into the same
\* ContentBasedFilter concurrently, the model load runs at most once, and no
\* caller observes model fields taken from two different loads.
C17_SingleFlightLoad == SingleFlight /\ OneLoadSeen

\* The details fetch failed: the wait timed out, or the fetch caught an
\* exception of the database call.
DetailsFailed ==
    \/ gm_waits.movie = "timeout"
    \/ gm_waits.movie = "result" /\ movie_future.caught

\* Only the similar-movies fetch failed: the details were found, and the
\* wait for the similar movies timed out or the fetch caught an exception.
OnlySimilarFailed ==
    /\ gm_waits.movie = "result"
    /\ movie_future.value # 0
    /\ \/ gm_waits.similar = "timeout"
       \/ gm_waits.similar = "result" /\ similar_future.caught

\* C18: in get_movie both fetches are dispatched together on the pool and
\* each is awaited with a timeout; when the details fetch times out or
\* raises the request fails with an error, and when only the similar-movies
\* fetch times out or raises the request succeeds with the fetched details
\* and an empty similar_movies list.
C18_RequiredAndOptionalFetch ==
    /\ gm_pc = "await_movie" /\ gm_args.include_similar
         => movie_future.state # "absent" /\ similar_future.state # "absent"
    /\ gm_pc = "responded" =>
         /\ DetailsFailed => response.status \in {404, 500}
         /\ OnlySimilarFailed =>
              response = [status |-> 200, movie_id |-> gm_args.movie_id,
                          similar_movies |-> <<>>]

\* A request is answered with the details after the wait for the similar
\* movies timed out.
C18_Witness ==
    /\ gm_pc = "responded"
    /\ OnlySimilarFailed
    /\ gm_waits.similar = "timeout"
    /\ response.status = 200

\* Row a ranks strictly above row b: greater score, or equal score and
\* greater vote_average.
RanksAbove(a, b) ==
    \/ a.similarity_score > b.similarity_score
    \/ /\ a.similarity_score = b.similarity_score
       /\ a.vote_average > b.vote_average

\* Retained candidates of the answered call that are not in the list.
LeftOut ==
    {c \in Retained(similarity_details.source_id, sim_weights) :
        \A i \in 1..Len(movies) : movies[i].movie_id # c}

\* C21: the list find_similar_movies returns has at most `limit` entries,
\* is ordered by similarity score descending and, among equal scores, by
\* vote_average descending, and no retained candidate left out of the list
\* ranks above a returned one.
C21_TopLimitOrdered ==
    (sim_pc = "returned" /\ ~similarity_details.empty) =>
        /\ Len(movies) <= sim_limit
        /\ \A i, j \in 1..Len(movies) : i < j => ~RanksAbove(movies[j], movies[i])
        /\ \A c \in LeftOut, i \in 1..Len(movies) :
              ~RanksAbove(SimilarRow(similarity_details.source_id, c, sim_weights),
                          movies[i])

\* Two rows with the same score and different vote averages are returned.
C21_Witness ==
    /\ sim_pc = "returned"
    /\ ~similarity_details.empty
    /\ \E i, j \in 1..Len(movies) :
          /\ i < j
          /\ movies[i].similarity_score = movies[j].similarity_score
          /\ movies[i].vote_average # movies[j].vote_average

\* The only structured information of the returned intent is a decade.
DecadeOnly ==
    /\ intent.filters.decade # <<>>
    /\ intent.entities = NoEntities
    /\ intent.filters.year = 0

\* C22: a non-similarity query whose only extracted structured information
\* is a decade counts as having structured entities: classify returns
\* [GRAPH] with confidence 0.95 when the query is not descriptive and
\* [HYBRID] with confidence 0.9 when it is, with the decade in filters.
C22_DecadeOnlyIsStructured ==
    (cl_pc = "classified" /\ intent.search_types # <<"similar">> /\ DecadeOnly) =>
        /\ ~Descriptive => intent.search_types = <<"graph">> /\ intent.confidence = 95
        /\ Descriptive => intent.search_types = <<"hybrid">> /\ intent.confidence = 90

\* C23: the genre list classify stores in entities['genres'] never holds
\* the same canonical genre twice, whatever genre keywords the query
\* contains.
C23_GenresDistinct ==
    cl_pc = "classified" => IsInjective(intent.entities.genres)

\* Positions of the decade tokens of a text that stand on their own: n
\* digits not preceded by a digit, followed by "s" and a word boundary.
DecadeTokens(s, n) ==
    {i \in 1..Len(s) :
        /\ DigitsAt(s, i, n)
        /\ LiteralAt(s, i + n, "s")
        /\ (i + n + 1 > Len(s) \/ CharAt(s, i + n + 1) \notin WordSet)
        /\ (i = 1 \/ CharAt(s, i - 1) \notin DigitSet)}

\* The range the first token of n digits stands for: a two-digit NN is
\* 2000 + NN below 30 and 1900 + NN from 30 on, a four-digit NNNN is NNNN.
TokenRange(s, n, at) ==
    IF n = 4 THEN <<ToInt(SubSeq(s, Minimum(at), Minimum(at) + 3)),
                    ToInt(SubSeq(s, Minimum(at), Minimum(at) + 3)) + 9>>
    ELSE IF ToInt(SubSeq(s, Minimum(at), Minimum(at) + 1)) < 30
    THEN <<2000 + ToInt(SubSeq(s, Minimum(at), Minimum(at) + 1)),
           2009 + ToInt(SubSeq(s, Minimum(at), Minimum(at) + 1))>>
    ELSE <<1900 + ToInt(SubSeq(s, Minimum(at), Minimum(at) + 1)),
           1909 + ToInt(SubSeq(s, Minimum(at), Minimum(at) + 1))>>

\* The decade of the intent is the range of the query's tokens of n digits,
\* when it has such tokens and none of the other length m.
DecadeIsRangeOf(s, n, m) ==
    (DecadeTokens(s, n) # {} /\ DecadeTokens(s, m) = {}) =>
        intent.filters.decade = TokenRange(s, n, DecadeTokens(s, n))

\* C24: _extract_decade maps a decade token to its inclusive ten-year range
\* (start, start + 9): a two-digit token NNs gives start = 2000 + NN when
\* NN < 30 and 1900 + NN when NN >= 30, and a four-digit token NNNNs (for
\* example "1920s" or "2010s") gives start = NNNN.
C24_DecadeRange ==
    (cl_pc = "classified" /\ intent.search_types # <<"similar">>) =>
        /\ DecadeIsRangeOf(StrLower(cl_query), 2, 4)
        /\ DecadeIsRangeOf(StrLower(cl_query), 4, 2)

\* A text without leading, trailing or doubled blanks.
BlanksCollapsed(s) ==
    /\ s # "" => CharAt(s, 1) # " " /\ CharAt(s, Len(s)) # " "
    /\ ~Contains(s, "  ")

\* The text names the person, in whatever case.
Names(s, person) == person # "" /\ Contains(StrLower(s), StrLower(person))

\* C25: when classify returns [HYBRID] because structured entities and a
\* descriptive keyword were both found, semantic_query is the original text
\* with the director and actor phrases removed and whitespace collapsed: it
\* no longer contains the extracted director name or actor name, wherever
\* in the query the name occurred.
C25_SemanticQueryCleaned ==
    (cl_pc = "classified" /\ intent.search_types = <<"hybrid">>
                          /\ intent.confidence = 90) =>
        /\ BlanksCollapsed(intent.semantic_query)
        /\ ~Names(intent.semantic_query, intent.entities.director)
        /\ ~Names(intent.semantic_query, intent.entities.actor)

\* The clause is among the clauses of the explanation.
HasClause(explanation, clause) ==
    \E k \in 1..Len(explanation.clauses) : explanation.clauses[k] = clause

\* The explanation of a returned entry follows from the raw scores and the
\* genres of its candidate.
ExplainedBy(explanation, item) ==
    /\ HasClause(explanation, "similar content to movies you like") <=> item.cbf > 500
    /\ HasClause(explanation, "popular among users with similar taste") <=> item.cf > 500
    /\ HasClause(explanation, "matches your search criteria") <=> item.semantic > 500
    /\ HasClause(explanation, "features") <=> PreferredFound(item) > 0
    /\ (item.cbf <= 500 /\ item.cf <= 500 /\ item.semantic <= 500
        /\ PreferredFound(item) = 0)
          => /\ explanation.text = "Recommended based on popularity and relevance"
             /\ explanation.clauses = <<>>
    /\ (item.cbf = 300 /\ item.cf = 0 /\ item.semantic = 300)
          => \A k \in 1..Len(explanation.clauses) : explanation.clauses[k] = "features"

\* C26: the explanation of each returned recommendation is built from its
\* raw scores: it has the CBF clause iff cbf > 0.5, the CF clause iff
\* cf > 0.5, the semantic clause iff semantic > 0.5 and a genre clause iff
\* the preferred genres overlap the candidate's genres; with none of these
\* it is exactly "Recommended based on popularity and relevance".  A
\* candidate of the genre fallback (scores 0.3) gets no strategy clause.
C26_ExplanationFromRawScores ==
    pc = "returned" =>
        \A i \in 1..Len(recommendations) :
            ExplainedBy(recommendations[i].explanation,
                        all_recommendations[ItemOf(recommendations[i].movie_id)])

\* The list holds a fallback candidate explained by its genres alone and a
\* candidate explained by a strategy.
C26_Witness ==
    /\ pc = "returned"
    /\ \E i \in 1..Len(recommendations) :
          /\ all_recommendations[ItemOf(recommendations[i].movie_id)].cbf = 300
          /\ recommendations[i].explanation.clauses = <<"features">>
    /\ \E i \in 1..Len(recommendations) :
          /\ recommendations[i].explanation.clauses # <<>>
          /\ ~HasClause(recommendations[i].explanation, "features")

\* A candidate is explained by a strategy and by its genres.
C26_StrategyAndGenres ==
    /\ pc = "returned"
    /\ \E i \in 1..Len(recommendations) :
          /\ Len(recommendations[i].explanation.clauses) >= 2
          /\ recommendations[i].explanation.features # {}

\* A candidate whose scores are all at most 0.5 and that has none of the
\* preferred genres is returned with the fixed sentence.
C26_DefaultSentence ==
    /\ pc = "returned"
    /\ \E i \in 1..Len(recommendations) :
          /\ recommendations[i].explanation.clauses = <<>>
          /\ all_recommendations[ItemOf(recommendations[i].movie_id)].cbf > 0

\* The candidates in the map after position k are placeholders of the genre
\* fallback for movies not among the first k.
PlaceholdersAfter(map, k) ==
    \A i \in (k + 1)..Len(map) :
        /\ map[i].cbf = 300 /\ map[i].cf = 0 /\ map[i].semantic = 300
        /\ \A j \in 1..(i - 1) : map[j].movie_id # map[i].movie_id

\* C27: the genre fallback is consulted exactly when the preferred genres
\* are non-empty and fewer than n distinct candidates were collected by CBF,
\* CF and semantic search; it adds only movies that are not yet candidates,
\* each with cbf = 0.3, cf = 0, semantic = 0.3, and leaves the scores and
\* the snapshot of every existing candidate unchanged.
C27_GenreFallbackFrame ==
    [][pc = "genre_fallback" =>
         /\ (calls' # calls) <=>
               (genres # <<>> /\ Len(all_recommendations) < n_recommendations)
         /\ calls' # calls =>
               /\ Len(calls') = Len(calls) + 1
               /\ calls'[Len(calls')].adapter = "search_movies"
         /\ Len(all_recommendations') >= Len(all_recommendations)
         /\ SubSeq(all_recommendations', 1, Len(all_recommendations)) = all_recommendations
         /\ PlaceholdersAfter(all_recommendations', Len(all_recommendations))]_vars

\* The genre fallback returned two rows, one for a movie that was already a
\* candidate with scores of its own, and added the other as a placeholder.
C27_Witness ==
    /\ pc = "final"
    /\ calls # <<>>
    /\ calls[Len(calls)].adapter = "search_movies"
    /\ calls[Len(calls)].rows = 2
    /\ Len(all_recommendations) = 2
    /\ all_recommendations[1].cbf > 300
    /\ all_recommendations[2].cbf = 300
    /\ all_recommendations[2].semantic = 300

\* The genre fallback is skipped although genres are preferred, because
\* enough candidates were collected.
C27_Skipped ==
    /\ pc = "final"
    /\ genres # <<>>
    /\ Len(all_recommendations) >= n_recommendations
    /\ \A i \in 1..Len(calls) : calls[i].adapter # "search_movies"

(***************************************************************************)
(* Properties of the content-based similar-movies path                     *)
(***************************************************************************)
NamesMovie(rows, mid) == \E i \in 1..Len(rows) : rows[i].movie_id = mid

\* C28: neither ContentBasedFilter.get_similar(movie_id) nor
\* ModelService.get_similar_movies(movie_id) returns an entry for the
\* requested movie, whether the movie is in the TF-IDF index (also when
\* another movie is exactly as similar to it as it is itself) or the answer
\* comes from the database genre fallback.
C28_SourceExcluded ==
    /\ ms_pc \in {"format", "returned"} => ~NamesMovie(ms_recs.rows, ms_args.movie_id)
    /\ ms_pc = "returned" => ~NamesMovie(ms_result, ms_args.movie_id)

\* get_similar answers from the index and names the requested movie.
C28_IndexNamesSource ==
    ms_recs.kind = "scored" => ~NamesMovie(ms_recs.rows, ms_args.movie_id)

\* get_similar answers from the database and names the requested movie.
C28_DatabaseNamesSource ==
    ms_recs.kind = "db_fallback" => ~NamesMovie(ms_recs.rows, ms_args.movie_id)

\* get_similar_movies names the requested movie.
C28_ServiceNamesSource ==
    ms_pc = "returned" => ~NamesMovie(ms_result, ms_args.movie_id)

\* Without a second movie of similarity 1 the index path leaves the
\* requested movie out.
C28_IndexWithoutTwin ==
    (ms_recs.kind = "scored" /\ ~({1, 4} \subseteq ms_index))
        => ~NamesMovie(ms_recs.rows, ms_args.movie_id)

(***************************************************************************)
(* Properties of CollaborativeFilter.get_recommendations_for_user          *)
(***************************************************************************)
\* C29: called with exclude_rated=True, get_recommendations_for_user never
\* returns a movie the user has rated, for every requested count n, also
\* when n exceeds the number of movies the user has not rated.
C29_RatedNeverReturned ==
    (cf_pc = "returned" /\ cf_args.exclude_rated) =>
        \A i \in 1..Len(cf_result) : cf_result[i].movie_id \notin cf_rated

\* While n does not exceed the number of unrated movies no rated movie is
\* returned.
C29_WithinUnrated ==
    (cf_pc = "returned" /\ cf_args.exclude_rated
     /\ cf_args.n_recommendations <= Cardinality(Movies \ cf_rated)) =>
        \A i \in 1..Len(cf_result) : cf_result[i].movie_id \notin cf_rated

\* A rated movie is only ever returned with the rating -inf.
C29_RatedComeMasked ==
    (cf_pc = "returned" /\ cf_args.exclude_rated) =>
        \A i \in 1..Len(cf_result) :
            cf_result[i].movie_id \in cf_rated => cf_result[i].score = NegInf

(***************************************************************************)
(* Properties of GeminiQueryService.parse_query                            *)
(***************************************************************************)
\* The reply cannot be turned into a ParsedQuery: the call raised, the text
\* is no JSON object, the query type is unknown, or a supported query has
\* no entities object.
Unusable(reply) ==
    \/ reply.kind \in {"raise", "text", "json_list"}
    \/ reply.kind = "json" /\ reply.query_type \notin {"director", "actor", "genre",
                                  "similar", "year", "combined", "unsupported"}
    \/ reply.kind = "json" /\ reply.is_supported /\ reply.entities = "null"

\* C30: parse_query always returns a ParsedQuery and never raises; when the
\* Gemini model is unavailable (library missing, no API key, initialisation
\* failed), the Gemini call raises, or its reply cannot be turned into a
\* ParsedQuery, the result is exactly the rule-based parse of the same
\* query; initialisation is attempted at most once per service instance.
C30_FallbackToRules ==
    /\ gq_pc # "raised"
    /\ gq_inits <= 1
    /\ gq_model => (gq_env.library /\ gq_env.api_key)
    /\ gq_pc = "returned" =>
          /\ gq_result.query_type \in {"director", "actor", "genre", "similar", "year",
                                       "combined", "unsupported"}
          /\ (~gq_model \/ Unusable(gq_reply)) => gq_result = ParseWithRules(gq_query)

\* A second call on an instance whose model exists got a reply with an
\* unknown query type and returned the rule-based parse, which names an
\* entity.
C30_Witness ==
    /\ gq_pc = "returned"
    /\ gq_calls = 2
    /\ gq_inits = 1
    /\ gq_model
    /\ gq_reply.kind = "json"
    /\ gq_reply.query_type = "bogus"
    /\ gq_result.entities.director = "Christopher Nolan"

\* The model could not be created although library and key are there, and
\* the next call does not try again.
C30_InitFailedOnce ==
    /\ gq_pc = "returned"
    /\ gq_calls = 2
    /\ gq_env.library /\ gq_env.api_key
    /\ ~gq_model
    /\ gq_reply = NoReply

\* A usable reply is returned as it is, not the rule-based parse.
C30_GeminiAnswer ==
    /\ gq_pc = "returned"
    /\ gq_model
    /\ ~Unusable(gq_reply)
    /\ gq_result # ParseWithRules(gq_query)

====
